---------------------------- MODULE Spec2Model ----------------------------
(***************************************************************************)
(* CHIP-8 interpreter (c8::chip8, src/src/chip8.cpp; c8::Chip8 in          *)
(* src/Chip8/Chip8.cpp is the same code under other names).                *)
(*                                                                         *)
(* The machine state is the set of fields of chip8::impl.  Each public     *)
(* method (load, clock_cycle, set_key_state, set_pixel) is one action.     *)
(*                                                                         *)
(* Time.  m_time_counter, delta_time and s_time_period are IEEE-754        *)
(* binary32 floats in the source.  A float t is kept as the whole number   *)
(* t * 2^33: every float that is 0 or at least 2^-10 is such a whole       *)
(* number, and so are the sums and differences of such floats.  A sum or a *)
(* difference is rounded to 24 significant bits, ties to even, as the      *)
(* float operation rounds it (f32_round).                                  *)
(*                                                                         *)
(* Memory.  m_memory is an array of s_total_memory bytes.  It is kept as   *)
(* the map of its nonzero bytes: an address that is not in the map holds   *)
(* 0 (mem_get), and storing 0 removes the address from the map (mem_put).  *)
(* A buffer handed to memcpy (rom_data, s_characters) is kept the same     *)
(* way: its length and the map of its nonzero bytes (ByteArray).           *)
(***************************************************************************)
EXTENDS Integers, Sequences, FiniteSets, TLC

-----------------------------------------------------------------------------
(* Program constants                                                       *)

s_total_memory == 4096              \* 0x1000
s_program_start_address == 512      \* 0x200
s_display_address == 3840           \* 0xf00
s_stack_address == 3744             \* 0xea0
s_program_memory ==
    s_total_memory - s_program_start_address - (s_total_memory - s_stack_address)
s_num_registers == 16
s_num_keys == 16
s_screen_width == 64
s_screen_height == 32
\* 1 / 60.0f = 8947849 * 2^-29, in units of 2^-33 s
s_time_period == 143165584

s_characters ==
    << 240, 144, 144, 144, 240,     \* 0
        32,  96,  32,  32, 112,     \* 1
       240,  16, 240, 128, 240,     \* 2
       240,  16, 240,  16, 240,     \* 3
       144, 144, 240,  16,  16,     \* 4
       240, 128, 240,  16, 240,     \* 5
       240, 128, 240, 144, 240,     \* 6
       240,  16,  32,  64,  64,     \* 7
       240, 144, 240, 144, 240,     \* 8
       240, 144, 240,  16, 240,     \* 9
       240, 144, 240, 144, 144,     \* A
       224, 144, 224, 144, 224,     \* B
       240, 128, 128, 128, 240,     \* C
       224, 144, 144, 144, 224,     \* D
       240, 128, 240, 128, 240,     \* E
       240, 128, 240, 128, 128 >>   \* F

\* The columns holding 'X' in each row of the 64x32 splash picture.
SplashRowColumns(y) ==
    CASE y = 11 -> (12..18) \cup (21..22) \cup (26..27) \cup (30..31)
                   \cup (34..40) \cup (45..51)
      [] y \in 12..14 -> (12..13) \cup (21..22) \cup (26..27) \cup (30..31)
                   \cup (34..35) \cup (39..40) \cup (45..46) \cup (50..51)
      [] y = 15 -> (12..13) \cup (21..27) \cup (30..31) \cup (34..40)
                   \cup (45..51)
      [] y \in 16..18 -> (12..13) \cup (21..22) \cup (26..27) \cup (30..31)
                   \cup (34..35) \cup (45..46) \cup (50..51)
      [] y = 19 -> (12..18) \cup (21..22) \cup (26..27) \cup (30..31)
                   \cup (34..35) \cup (45..51)
      [] OTHER -> {}

\* s_splash_screen_data[idx] == 'X'
s_splash_screen_data(idx) ==
    (idx % s_screen_width) \in SplashRowColumns(idx \div s_screen_width)

-----------------------------------------------------------------------------
(* Fixed-width integer arithmetic                                          *)

Byte == 0..255

U8(x) == x % 256
U16(x) == x % 65536

RECURSIVE BitAnd(_, _)
BitAnd(a, b) ==
    IF a = 0 \/ b = 0 THEN 0
    ELSE (a % 2) * (b % 2) + 2 * BitAnd(a \div 2, b \div 2)

RECURSIVE BitOr(_, _)
BitOr(a, b) ==
    IF a = 0 THEN b
    ELSE IF b = 0 THEN a
    ELSE (IF a % 2 = 1 \/ b % 2 = 1 THEN 1 ELSE 0) + 2 * BitOr(a \div 2, b \div 2)

RECURSIVE BitXor(_, _)
BitXor(a, b) ==
    IF a = 0 THEN b
    ELSE IF b = 0 THEN a
    ELSE ((a + b) % 2) + 2 * BitXor(a \div 2, b \div 2)

Shr(a, k) == a \div (2 ^ k)
Shl(a, k) == a * (2 ^ k)

-----------------------------------------------------------------------------
(* m_memory                                                                *)

\* memory[a]
mem_get(memory, a) == IF a \in DOMAIN memory THEN memory[a] ELSE 0

\* memory[a] = b
mem_put(memory, a, b) ==
    IF b = 0 THEN [x \in DOMAIN memory \ {a} |-> memory[x]]
    ELSE [x \in DOMAIN memory \cup {a} |-> IF x = a THEN b ELSE memory[x]]

\* memset(&memory[dst], 0, n)
memset_zero(memory, dst, n) ==
    [a \in DOMAIN memory \ (dst..(dst + n - 1)) |-> memory[a]]

\* A buffer of bytes: its length and its nonzero bytes, indexed from 0.
ByteArray(seq) ==
    [ length |-> Len(seq),
      data |-> [k \in {j \in 0..(Len(seq) - 1) : seq[j + 1] # 0} |-> seq[k + 1]] ]

\* buffer[k]
byte_at(buffer, k) == IF k \in DOMAIN buffer.data THEN buffer.data[k] ELSE 0

\* memcpy(&memory[dst], src, length)
memcpy(memory, dst, src, length) ==
    [a \in (DOMAIN memory \ (dst..(dst + length - 1)))
            \cup {dst + k : k \in {j \in DOMAIN src.data : j < length}} |->
        IF a >= dst /\ a < dst + length THEN src.data[a - dst] ELSE memory[a]]

-----------------------------------------------------------------------------
(* bit_view over m_memory[s_display_address ..] (m_video_memory)           *)

bit_view_get_lsb_first(memory, bit) ==
    BitAnd(mem_get(memory, s_display_address + bit \div 8), Shl(1, bit % 8)) # 0

\* bit_view::get
bit_view_get(memory, bit) ==
    BitAnd(mem_get(memory, s_display_address + bit \div 8), Shr(128, bit % 8)) # 0

bit_view_set_byte_only_sets(byte, bit, value) ==
    IF value THEN BitOr(byte, Shr(128, bit % 8)) ELSE byte

\* bit_view::set, on the byte that holds the bit
bit_view_set_byte(byte, bit, value) ==
    LET mod == bit % 8
        mask == Shr(128, mod)
    IN  IF value THEN BitOr(byte, mask) ELSE BitAnd(byte, 255 - mask)

bit_view_set(memory, bit, value) ==
    LET a == s_display_address + bit \div 8
    IN  mem_put(memory, a, bit_view_set_byte(mem_get(memory, a), bit, value))

\* chip8::get_pixel; assert(x < s_screen_width); assert(y < s_screen_height)
get_pixel(memory, x, y) == bit_view_get(memory, y * s_screen_width + x)

\* chip8::set_pixel; assert(x < s_screen_width); assert(y < s_screen_height)
set_pixel(memory, x, y, value) == bit_view_set(memory, y * s_screen_width + x, value)

-----------------------------------------------------------------------------
(* float                                                                   *)

\* The position of the leading bit of n >= 1.
f32_exponent(n) == CHOOSE k \in 0..30 : n \div (2 ^ k) = 1

\* n rounded to 24 significant bits, ties to even.
f32_round(n) ==
    IF n < 2 ^ 24 THEN n
    ELSE LET q == 2 ^ (f32_exponent(n) - 23)
             r == n % q
             lo == n - r
         IN  IF 2 * r < q THEN lo
             ELSE IF 2 * r > q THEN lo + q
             ELSE IF (lo \div q) % 2 = 0 THEN lo ELSE lo + q

\* float + float
f32_add(a, b) == f32_round(a + b)

\* float - float, a >= b
f32_sub(a, b) == f32_round(a - b)

-----------------------------------------------------------------------------
(* State                                                                   *)

VARIABLES
    m_memory,        \* std::array<uint8_t, s_total_memory>
    m_v,             \* V0..VF
    m_pc,            \* program counter (uint16_t)
    m_i,             \* address register (uint16_t)
    m_sp,            \* stack pointer (uint8_t)
    m_delay_timer,   \* uint8_t
    m_sound_timer,   \* uint8_t
    m_time_counter,  \* time accumulated towards the next 60 Hz tick
    m_keyboard,      \* std::array<bool, s_num_keys>
    ub,              \* an access outside an array has happened
    op,              \* history: the last call made and its arguments
    elapsed,         \* history: exact sum of delta_time since the last reset
    ticks,           \* history: 60 Hz ticks applied since the last reset
    run500,          \* history: see clock_cycle_run500
    previous,        \* history: elapsed and ticks when the last load was made
    calls,           \* history: the calls made by 2NNN that have not returned
    keys,            \* history: see set_key_state_keys
    time_acc,        \* application::start: frame time not yet given to the chip
    main_loop,       \* where application::start is, and the history of its frames
    data_callback    \* where the audio device's callback is, and the volume it read

vars == << m_memory, m_v, m_pc, m_i, m_sp, m_delay_timer, m_sound_timer,
           m_time_counter, m_keyboard, ub, op, elapsed, ticks, run500,
           previous, calls, keys, time_acc, main_loop, data_callback >>

\* The variables of the application around the interpreter.
app == << time_acc, main_loop, data_callback >>

\* The interpreter's fields as one record.
Machine ==
    [ memory |-> m_memory, v |-> m_v, pc |-> m_pc, i |-> m_i, sp |-> m_sp,
      delay_timer |-> m_delay_timer, sound_timer |-> m_sound_timer,
      time_counter |-> m_time_counter, keyboard |-> m_keyboard,
      ub |-> ub, ticks |-> ticks ]

Becomes(s) ==
    /\ m_memory' = s.memory
    /\ m_v' = s.v
    /\ m_pc' = s.pc
    /\ m_i' = s.i
    /\ m_sp' = s.sp
    /\ m_delay_timer' = s.delay_timer
    /\ m_sound_timer' = s.sound_timer
    /\ m_time_counter' = s.time_counter
    /\ m_keyboard' = s.keyboard
    /\ ub' = s.ub
    /\ ticks' = s.ticks

-----------------------------------------------------------------------------
(* reset, load, constructor                                                *)

reset_keep_registers(s) == s

reset_zero_registers(s) ==
    [s EXCEPT !.v = [r \in 0..(s_num_registers - 1) |-> 0]]

reset_without_font(s) ==
    LET z == reset_zero_registers(
               [s EXCEPT !.memory = memset_zero(@, 0, s_total_memory)])
    IN  [z EXCEPT !.keyboard = [k \in 0..(s_num_keys - 1) |-> FALSE],
                  !.pc = s_program_start_address,
                  !.sp = 0,
                  !.i = 0,
                  !.delay_timer = 0,
                  !.sound_timer = 0,
                  !.time_counter = 0,
                  !.ticks = 0]

reset_keeps_keys(s) ==
    LET z == reset_zero_registers(
               [s EXCEPT !.memory = memset_zero(@, 0, s_total_memory)])
    IN  [z EXCEPT !.pc = s_program_start_address,
                  !.sp = 0,
                  !.i = 0,
                  !.delay_timer = 0,
                  !.sound_timer = 0,
                  !.time_counter = 0,
                  !.ticks = 0,
                  !.memory = memcpy(z.memory, 0, ByteArray(s_characters),
                                    Len(s_characters))]

\* chip8::impl::reset
reset(s) ==
    LET z == reset_zero_registers(
               [s EXCEPT !.memory = memset_zero(@, 0, s_total_memory)])
    IN  [z EXCEPT !.keyboard = [k \in 0..(s_num_keys - 1) |-> FALSE],
                  !.pc = s_program_start_address,
                  !.sp = 0,
                  !.i = 0,
                  !.delay_timer = 0,
                  !.sound_timer = 0,
                  !.time_counter = 0,
                  !.ticks = 0,
                  !.memory = memcpy(z.memory, 0, ByteArray(s_characters),
                                    Len(s_characters))]

load_accepts_one_more(length) == ~(length > s_program_memory + 1)

load_accepts(length) == ~(length > s_program_memory)

load(s, rom_data, length) ==
    IF ~load_accepts(length) THEN s
    ELSE LET r == reset(s)
         IN  [r EXCEPT !.memory = memcpy(r.memory, s_program_start_address,
                                         rom_data, length)]

\* The constructor's loop sets every pixel once, each set touching only its
\* own bit: byte by byte, the 8 sets that fall into that byte.
RECURSIVE splash_byte(_, _, _)
splash_byte(byte, first_bit, k) ==
    IF k >= 8 THEN byte
    ELSE splash_byte(
           bit_view_set_byte(byte, first_bit + k, s_splash_screen_data(first_bit + k)),
           first_bit, k + 1)

splash_at(memory, a) ==
    splash_byte(mem_get(memory, a), (a - s_display_address) * 8, 0)

splash(memory) ==
    LET screen == s_display_address..(s_total_memory - 1)
    IN  [a \in (DOMAIN memory \ screen)
                \cup {x \in screen : splash_at(memory, x) # 0} |->
            IF a \in screen THEN splash_at(memory, a) ELSE memory[a]]

Blank ==
    [ memory |-> [a \in {} |-> 0],
      v |-> [r \in 0..(s_num_registers - 1) |-> 0],
      pc |-> 0, i |-> 0, sp |-> 0, delay_timer |-> 0, sound_timer |-> 0,
      time_counter |-> 0, keyboard |-> [k \in 0..(s_num_keys - 1) |-> FALSE],
      ub |-> FALSE, ticks |-> 0 ]

\* chip8::impl::impl()
impl ==
    LET r == reset(Blank)
    IN  [r EXCEPT !.memory = splash(r.memory)]

-----------------------------------------------------------------------------
(* clock_cycle: timers                                                     *)

\* An access outside m_memory or m_keyboard: undefined behaviour.
Fault(s) == [s EXCEPT !.ub = TRUE]

InMemory(a) == a >= 0 /\ a < s_total_memory

timer_due(time_counter) == time_counter > s_time_period

timer_decrement_wraps(t) == U8(t + 255)

timer_decrement(t) == IF t > 0 THEN t - 1 ELSE t

timer_tick_clears_counter(s) ==
    [s EXCEPT !.time_counter = 0,
              !.delay_timer = timer_decrement(@),
              !.sound_timer = timer_decrement(@),
              !.ticks = @ + 1]

timer_tick(s) ==
    [s EXCEPT !.time_counter = f32_sub(@, s_time_period),
              !.delay_timer = timer_decrement(@),
              !.sound_timer = timer_decrement(@),
              !.ticks = @ + 1]

RECURSIVE timer_loop(_)
timer_loop(s) ==
    IF timer_due(s.time_counter) THEN timer_loop(timer_tick(s)) ELSE s

\* A variant in which the timers stand still while the word at PC is 0x0000
\* or a wait for a key.
handle_timers_while_running(s, delta_time) ==
    LET word == 256 * mem_get(s.memory, s.pc) + mem_get(s.memory, s.pc + 1)
    IN  IF word = 0 \/ (word \div 4096 = 15 /\ word % 256 = 10)
        THEN s
        ELSE timer_loop([s EXCEPT !.time_counter = f32_add(@, delta_time)])

handle_timers(s, delta_time) ==
    timer_loop([s EXCEPT !.time_counter = f32_add(@, delta_time)])

-----------------------------------------------------------------------------
(* clock_cycle: fetch and decode                                           *)

fetch(s) == BitOr(Shl(mem_get(s.memory, s.pc), 8), mem_get(s.memory, s.pc + 1))

decode(instruction) ==
    [ instruction |-> instruction,
      n3 |-> Shr(BitAnd(instruction, 61440), 12),
      n2 |-> Shr(BitAnd(instruction, 3840), 8),
      n1 |-> Shr(BitAnd(instruction, 240), 4),
      n0 |-> Shr(BitAnd(instruction, 15), 0),
      hb |-> Shr(BitAnd(instruction, 65280), 8),
      lb |-> Shr(BitAnd(instruction, 255), 0),
      nnn |-> Shr(BitAnd(instruction, 4095), 0) ]

\* C8_UNKN(instruction, m_pc); m_pc -= 2;
unknown_without_step_back(s) == s

\* C8_UNKN(instruction, m_pc); m_pc -= 2;
unknown(s) == [s EXCEPT !.pc = U16(@ + 65536 - 2)]

skip_if_taken(s, cond) == [s EXCEPT !.pc = U16(@ + 2)]

\* SE, SNE, SKP, SKNP: if (...) m_pc = m_pc + 2;
skip_if(s, cond) == IF cond THEN [s EXCEPT !.pc = U16(@ + 2)] ELSE s

-----------------------------------------------------------------------------
(* clock_cycle: the opcode families                                        *)

op_0_clears_the_stack(s, d) ==
    CASE d.lb = 224 ->
           [s EXCEPT !.memory = memset_zero(@, s_stack_address,
                                            s_total_memory - s_stack_address)]
      [] d.lb = 238 ->
           [s EXCEPT !.pc = BitOr(mem_get(s.memory, s_stack_address + s.sp),
                                  Shl(mem_get(s.memory, s_stack_address + s.sp + 1), 8)),
                     !.sp = U8(@ + 256 - 2)]
      [] OTHER -> unknown(s)

\* case 0: CLS, RET
op_0(s, d) ==
    CASE d.lb = 224 ->
           [s EXCEPT !.memory = memset_zero(@, s_display_address,
                                            s_total_memory - s_display_address)]
      [] d.lb = 238 ->
           [s EXCEPT !.pc = BitOr(mem_get(s.memory, s_stack_address + s.sp),
                                  Shl(mem_get(s.memory, s_stack_address + s.sp + 1), 8)),
                     !.sp = U8(@ + 256 - 2)]
      [] OTHER -> unknown(s)

op_2_pushes_at_old_sp(s, d) ==
    LET m0 == mem_put(s.memory, s_stack_address + s.sp, BitAnd(s.pc, 255))
        m1 == mem_put(m0, s_stack_address + s.sp + 1, Shr(BitAnd(s.pc, 65280), 8))
    IN  [s EXCEPT !.sp = U8(s.sp + 2), !.memory = m1, !.pc = d.nnn]

\* case 2: CALL
op_2(s, d) ==
    LET sp == U8(s.sp + 2)
        m0 == mem_put(s.memory, s_stack_address + sp, BitAnd(s.pc, 255))
        m1 == mem_put(m0, s_stack_address + sp + 1, Shr(BitAnd(s.pc, 65280), 8))
    IN  [s EXCEPT !.sp = sp, !.memory = m1, !.pc = d.nnn]

add_vx_vy_without_carry(s, d) ==
    LET vx == s.v[d.n2]
        vy == s.v[d.n1]
        v1 == [s.v EXCEPT ![d.n2] = U8(vx + vy)]
    IN  [s EXCEPT !.v = [v1 EXCEPT ![15] = 0]]

add_vx_vy_flags_equal_sum(s, d) ==
    LET vx == s.v[d.n2]
        vy == s.v[d.n1]
        v1 == [s.v EXCEPT ![d.n2] = U8(vx + vy)]
    IN  [s EXCEPT !.v = [v1 EXCEPT ![15] = IF v1[d.n2] > vx THEN 0 ELSE 1]]

\* case 8 / 4: tmp0[0] = vx; vx += vy; m_v[15] = vx >= tmp0[0] ? 0 : 1;
add_vx_vy(s, d) ==
    LET vx == s.v[d.n2]
        vy == s.v[d.n1]
        v1 == [s.v EXCEPT ![d.n2] = U8(vx + vy)]
    IN  [s EXCEPT !.v = [v1 EXCEPT ![15] = IF v1[d.n2] >= vx THEN 0 ELSE 1]]

sub_vx_vy_flags_equal_difference(s, d) ==
    LET vx == s.v[d.n2]
        vy == s.v[d.n1]
        v1 == [s.v EXCEPT ![d.n2] = U8(vx + 256 - vy)]
    IN  [s EXCEPT !.v = [v1 EXCEPT ![15] = IF v1[d.n2] >= vx THEN 0 ELSE 1]]

\* case 8 / 5: tmp0[0] = vx; vx -= vy; m_v[15] = vx > tmp0[0] ? 0 : 1;
sub_vx_vy(s, d) ==
    LET vx == s.v[d.n2]
        vy == s.v[d.n1]
        v1 == [s.v EXCEPT ![d.n2] = U8(vx + 256 - vy)]
    IN  [s EXCEPT !.v = [v1 EXCEPT ![15] = IF v1[d.n2] > vx THEN 0 ELSE 1]]

shr_vx_from_vy(s, d) ==
    LET vy == s.v[d.n1]
        v1 == [s.v EXCEPT ![15] = BitAnd(vy, 1)]
    IN  [s EXCEPT !.v = [v1 EXCEPT ![d.n2] = Shr(vy, 1)]]

\* case 8 / 6: m_v[15] = vx & 1; vx >>= 1;
shr_vx(s, d) ==
    LET vx == s.v[d.n2]
        v1 == [s.v EXCEPT ![15] = BitAnd(vx, 1)]
    IN  [s EXCEPT !.v = [v1 EXCEPT ![d.n2] = Shr(v1[d.n2], 1)]]

\* case 8 / 7: tmp0[0] = vx; vx = vy - vx; m_v[15] = vx > tmp0[0] ? 0 : 1;
subn_vx_vy(s, d) ==
    LET vx == s.v[d.n2]
        vy == s.v[d.n1]
        v1 == [s.v EXCEPT ![d.n2] = U8(vy + 256 - vx)]
    IN  [s EXCEPT !.v = [v1 EXCEPT ![15] = IF v1[d.n2] > vx THEN 0 ELSE 1]]

\* case 8 / 0xe: m_v[15] = (vx & 0x80) >> 7; vx <<= 1;
shl_vx(s, d) ==
    LET vx == s.v[d.n2]
        v1 == [s.v EXCEPT ![15] = Shr(BitAnd(vx, 128), 7)]
    IN  [s EXCEPT !.v = [v1 EXCEPT ![d.n2] = U8(Shl(v1[d.n2], 1))]]

\* case 8: register to register
op_8(s, d) ==
    LET vx == s.v[d.n2]
        vy == s.v[d.n1]
    IN  CASE d.n0 = 0 -> [s EXCEPT !.v[d.n2] = vy]
          [] d.n0 = 1 -> [s EXCEPT !.v[d.n2] = BitOr(vx, vy)]
          [] d.n0 = 2 -> [s EXCEPT !.v[d.n2] = BitAnd(vx, vy)]
          [] d.n0 = 3 -> [s EXCEPT !.v[d.n2] = BitXor(vx, vy)]
          [] d.n0 = 4 -> add_vx_vy(s, d)
          [] d.n0 = 5 -> sub_vx_vy(s, d)
          [] d.n0 = 6 -> shr_vx(s, d)
          [] d.n0 = 7 -> subn_vx_vy(s, d)
          [] d.n0 = 14 -> shl_vx(s, d)
          [] OTHER -> unknown(s)

RECURSIVE drw_row_flags_every_pixel(_, _, _, _, _)
drw_row_flags_every_pixel(s, start_x, y, sprite_row, j) ==
    IF j >= 8 THEN s
    ELSE LET bit_idx == y * s_screen_width + ((start_x + j) % s_screen_width)
             screen_val == bit_view_get(s.memory, bit_idx)
             sprite_val == BitAnd(sprite_row, Shr(128, j)) # 0
         IN  drw_row_flags_every_pixel(
                [s EXCEPT !.memory = bit_view_set(@, bit_idx, screen_val # sprite_val),
                          !.v[15] = IF sprite_val THEN 1 ELSE @],
                start_x, y, sprite_row, j + 1)

RECURSIVE drw_row_clipped(_, _, _, _, _)
drw_row_clipped(s, start_x, y, sprite_row, j) ==
    IF j >= 8 \/ (start_x % s_screen_width) + j >= s_screen_width THEN s
    ELSE LET bit_idx == y * s_screen_width + (start_x % s_screen_width) + j
             screen_val == bit_view_get(s.memory, bit_idx)
             sprite_val == BitAnd(sprite_row, Shr(128, j)) # 0
         IN  drw_row_clipped(
                [s EXCEPT !.memory = bit_view_set(@, bit_idx, screen_val # sprite_val),
                          !.v[15] = IF screen_val /\ sprite_val THEN 1 ELSE @],
                start_x, y, sprite_row, j + 1)

\* case 0xd, the inner loop: the 8 pixels of one sprite row
RECURSIVE drw_row(_, _, _, _, _)
drw_row(s, start_x, y, sprite_row, j) ==
    IF j >= 8 THEN s
    ELSE LET x == (start_x + j) % s_screen_width
             bit_idx == y * s_screen_width + x
             screen_val == bit_view_get(s.memory, bit_idx)
             sprite_val == BitAnd(sprite_row, Shr(128, j)) # 0
             memory == bit_view_set(s.memory, bit_idx, screen_val # sprite_val)
             collision == screen_val /\ ~bit_view_get(memory, bit_idx)
         IN  drw_row([s EXCEPT !.memory = memory,
                               !.v[15] = IF collision THEN 1 ELSE @],
                     start_x, y, sprite_row, j + 1)

\* case 0xd, the outer loop: rows i .. n0-1
RECURSIVE drw_rows(_, _, _)
drw_rows(s, d, i) ==
    IF i >= d.n0 THEN s
    ELSE IF ~InMemory(s.i + i) THEN Fault(s)
    ELSE drw_rows(drw_row(s, s.v[d.n2], (s.v[d.n1] + i) % s_screen_height,
                          mem_get(s.memory, s.i + i), 0),
                  d, i + 1)

op_d_keeps_flag(s, d) == drw_rows(s, d, 0)

\* case 0xd: DRW
op_d(s, d) == drw_rows([s EXCEPT !.v[15] = 0], d, 0)

\* case 0xe: SKP, SKNP
op_e(s, d) ==
    LET vx == s.v[d.n2]
    IN  CASE d.lb = 158 ->
               IF vx >= s_num_keys THEN Fault(s) ELSE skip_if(s, s.keyboard[vx])
          [] d.lb = 161 ->
               IF vx >= s_num_keys THEN Fault(s) ELSE skip_if(s, ~s.keyboard[vx])
          [] OTHER -> s

first_pressed_downwards(keyboard, i) ==
    IF \A k \in DOMAIN keyboard : ~keyboard[k] THEN -1
    ELSE CHOOSE k \in DOMAIN keyboard :
            keyboard[k] /\ \A j \in DOMAIN keyboard : keyboard[j] => j <= k

\* case 0xf / 0x0a: the scan for the first pressed key, -1 when there is none
RECURSIVE first_pressed(_, _)
first_pressed(keyboard, i) ==
    IF i >= s_num_keys THEN -1
    ELSE IF keyboard[i] THEN i
    ELSE first_pressed(keyboard, i + 1)

ld_vx_k(s, d) ==
    LET k == first_pressed(s.keyboard, 0)
    IN  IF k >= 0 THEN [s EXCEPT !.v[d.n2] = k]
        ELSE [s EXCEPT !.pc = U16(@ + 65536 - 2)]

ld_b_vx_tens_of_all(s, d) ==
    LET vx == s.v[d.n2]
        a == s.i
    IN  IF ~InMemory(a + 2) THEN Fault(s)
        ELSE LET m0 == mem_put(s.memory, a + 0, vx \div 100)
                 m1 == mem_put(m0, a + 1, U8(vx \div 10))
                 m2 == mem_put(m1, a + 2, U8(vx - mem_get(m1, a + 1) * 10))
             IN  [s EXCEPT !.memory = m2]

\* case 0xf / 0x33
ld_b_vx(s, d) ==
    LET vx == s.v[d.n2]
        a == s.i
    IN  IF ~InMemory(a + 2) THEN Fault(s)
        ELSE LET m0 == mem_put(s.memory, a + 0, vx \div 100)
                 m1 == mem_put(m0, a + 1, U8((vx - mem_get(m0, a + 0) * 100) \div 10))
                 m2 == mem_put(m1, a + 2,
                         U8(vx - mem_get(m1, a + 0) * 100 - mem_get(m1, a + 1) * 10))
             IN  [s EXCEPT !.memory = m2]

RECURSIVE ld_i_vx_below_x(_, _, _)
ld_i_vx_below_x(s, d, i) ==
    IF i >= d.n2 THEN s
    ELSE IF ~InMemory(s.i + i) THEN Fault(s)
    ELSE ld_i_vx_below_x([s EXCEPT !.memory = mem_put(@, s.i + i, s.v[i])], d, i + 1)

\* case 0xf / 0x55
RECURSIVE ld_i_vx(_, _, _)
ld_i_vx(s, d, i) ==
    IF i > d.n2 THEN s
    ELSE IF ~InMemory(s.i + i) THEN Fault(s)
    ELSE ld_i_vx([s EXCEPT !.memory = mem_put(@, s.i + i, s.v[i])], d, i + 1)

\* case 0xf / 0x65
RECURSIVE ld_vx_i(_, _, _)
ld_vx_i(s, d, i) ==
    IF i > d.n2 THEN s
    ELSE IF ~InMemory(s.i + i) THEN Fault(s)
    ELSE ld_vx_i([s EXCEPT !.v[i] = mem_get(s.memory, s.i + i)], d, i + 1)

ld_dt_vx(s, d) == [s EXCEPT !.delay_timer = s.v[d.n2]]

ld_st_vx(s, d) == [s EXCEPT !.sound_timer = s.v[d.n2]]

\* case 0xf
op_f(s, d) ==
    LET vx == s.v[d.n2]
    IN  CASE d.lb = 7 -> [s EXCEPT !.v[d.n2] = s.delay_timer]
          [] d.lb = 10 -> ld_vx_k(s, d)
          [] d.lb = 21 -> ld_dt_vx(s, d)
          [] d.lb = 24 -> ld_st_vx(s, d)
          [] d.lb = 30 -> [s EXCEPT !.i = U16(@ + vx)]
          [] d.lb = 41 -> [s EXCEPT !.i = vx * 5]
          [] d.lb = 51 -> ld_b_vx(s, d)
          [] d.lb = 85 -> ld_i_vx(s, d, 0)
          [] d.lb = 101 -> ld_vx_i(s, d, 0)
          [] OTHER -> unknown(s)

add_vx_nn_sets_carry(s, d) ==
    LET sum == s.v[d.n2] + d.lb
        v1 == [s.v EXCEPT ![d.n2] = U8(sum)]
    IN  [s EXCEPT !.v = [v1 EXCEPT ![15] = IF sum > 255 THEN 1 ELSE @]]

\* case 7: vx += lb;
add_vx_nn(s, d) == [s EXCEPT !.v[d.n2] = U8(s.v[d.n2] + d.lb)]

rnd_vx_nn_carries_into_vf(s, d, rand) ==
    LET v1 == [s.v EXCEPT ![d.n2] = BitAnd(rand % 256, d.lb)]
    IN  [s EXCEPT !.v = [v1 EXCEPT ![15] = (rand % 256) \div 128]]

\* case 0xc: vx = (rand() % 256) & lb;
rnd_vx_nn(s, d, rand) == [s EXCEPT !.v[d.n2] = BitAnd(rand % 256, d.lb)]

\* switch (n3); s.pc is already advanced past the instruction
execute(s, d, rand) ==
    LET vx == s.v[d.n2]
        vy == s.v[d.n1]
    IN  CASE d.n3 = 0 -> op_0(s, d)
          [] d.n3 = 1 -> [s EXCEPT !.pc = d.nnn]
          [] d.n3 = 2 -> op_2(s, d)
          [] d.n3 = 3 -> skip_if(s, BitXor(vx, d.lb) = 0)
          [] d.n3 = 4 -> skip_if(s, BitXor(vx, d.lb) # 0)
          [] d.n3 = 5 -> skip_if(s, vx = vy)
          [] d.n3 = 6 -> [s EXCEPT !.v[d.n2] = d.lb]
          [] d.n3 = 7 -> add_vx_nn(s, d)
          [] d.n3 = 8 -> op_8(s, d)
          [] d.n3 = 9 -> skip_if(s, vx # vy)
          [] d.n3 = 10 -> [s EXCEPT !.i = d.nnn]
          [] d.n3 = 11 -> [s EXCEPT !.pc = U16(s.v[0] + d.nnn)]
          [] d.n3 = 12 -> rnd_vx_nn(s, d, rand)
          [] d.n3 = 13 -> op_d(s, d)
          [] d.n3 = 14 -> op_e(s, d)
          [] d.n3 = 15 -> op_f(s, d)
          [] OTHER -> unknown(s)

fetch_execute(s, rand) ==
    IF ~InMemory(s.pc + 1) THEN Fault(s)
    ELSE LET instruction == fetch(s)
         IN  execute([s EXCEPT !.pc = U16(@ + 2)], decode(instruction), rand)

clock_cycle_in_timer_loop(s, delta_time, rand) ==
    LET t == handle_timers(s, delta_time)
    IN  IF t.ticks > s.ticks THEN fetch_execute(t, rand) ELSE t

clock_cycle_timers_last(s, delta_time, rand) ==
    LET r == fetch_execute(s, rand)
    IN  IF r.ub THEN r ELSE handle_timers(r, delta_time)

\* chip8::impl::clock_cycle
clock_cycle(s, delta_time, rand) ==
    fetch_execute(handle_timers(s, delta_time), rand)

-----------------------------------------------------------------------------
(* The public operations as actions                                        *)

\* The floats 1.0f / 500 and 0.04f, in units of 2^-33 s
D500 == 17179870
D25 == 343597376

\* History: the exact sum of the delta_time of the calls, as the number of
\* whole periods and the rest.
elapsed_zero == [periods |-> 0, rest |-> 0]

elapsed_add(e, delta_time) ==
    LET r == e.rest + delta_time
    IN  [periods |-> e.periods + r \div s_time_period, rest |-> r % s_time_period]

RunCap == 61

\* History for the 500 Hz run: the number of consecutive clock_cycle calls
\* with delta_time = 1/500 s, none of them FX15, made since a state with
\* m_time_counter = 0 and m_delay_timer = 255; -1 when there is no such run.
clock_cycle_run500(delta_time, d) ==
    LET base == IF m_time_counter = 0 /\ m_delay_timer = 255 THEN 0 ELSE run500
    IN  IF base >= 0 /\ delta_time = D500 /\ ~(d.n3 = 15 /\ d.lb = 21)
        THEN (IF base + 1 > RunCap THEN RunCap ELSE base + 1)
        ELSE -1

\* The instruction the next clock_cycle fetches, -1 when the fetch is outside memory.
NextInstruction == IF InMemory(m_pc + 1) THEN fetch(Machine) ELSE -1

\* rand() % 256 is any byte; it is only read by CXNN.
RandChoices == IF NextInstruction # -1 /\ NextInstruction \div 4096 = 12 THEN Byte ELSE {0}

\* The bytes of m_video_memory, as the map of the nonzero ones.
video_memory(memory) ==
    [a \in {x \in DOMAIN memory : x >= s_display_address} |-> memory[a]]

\* History of a call that executes DXYN: the framebuffer before the call.
clock_cycle_screen ==
    IF NextInstruction # -1 /\ NextInstruction \div 4096 = 13
    THEN video_memory(m_memory)
    ELSE << >>

\* History of the subroutine calls: a call that executes 2NNN adds the
\* address of the instruction and the stack pointer it found, a call that
\* executes 00EE (case 0 with lb = 0xee) removes the last one added.
clock_cycle_calls ==
    IF NextInstruction = -1 THEN calls
    ELSE LET d == decode(NextInstruction)
         IN  IF d.n3 = 2 THEN Append(calls, [pc |-> m_pc, sp |-> m_sp])
             ELSE IF d.n3 = 0 /\ d.lb = 238 /\ calls # << >>
                  THEN SubSeq(calls, 1, Len(calls) - 1)
                  ELSE calls

\* History of the keys since the last reset: last[k] is the argument of the
\* last set_key_state(k, .), FALSE when there was none; pressed is the set
\* of the keys k for which set_key_state(k, true) was called after the last
\* clock_cycle.
keys_zero == [last |-> [k \in 0..(s_num_keys - 1) |-> FALSE], pressed |-> {}]

set_key_state_keys(key, pressed) ==
    [last |-> [keys.last EXCEPT ![key] = pressed],
     pressed |-> IF pressed THEN keys.pressed \cup {key} ELSE keys.pressed]

\* chip8::load
Loading(rom_data) ==
    /\ ~ub
    /\ Becomes(load(Machine, rom_data, rom_data.length))
    /\ op' = [name |-> "load", rom_data |-> rom_data,
              before |-> [pc |-> m_pc, delay_timer |-> m_delay_timer,
                          pressed |-> {k \in DOMAIN m_keyboard : m_keyboard[k]},
                          font |-> [a \in 0..4 |-> mem_get(m_memory, a)]]]
    /\ elapsed' = IF load_accepts(rom_data.length) THEN elapsed_zero ELSE elapsed
    /\ run500' = IF load_accepts(rom_data.length) THEN -1 ELSE run500
    /\ calls' = IF load_accepts(rom_data.length) THEN << >> ELSE calls
    /\ keys' = IF load_accepts(rom_data.length) THEN keys_zero ELSE keys
    /\ UNCHANGED app

Load(rom_data) == Loading(rom_data) /\ UNCHANGED previous

\* A load that ends one run and starts another: the history keeps how long
\* the run that ends has lasted and how many ticks it has applied.
LoadAfterRun(rom_data) ==
    Loading(rom_data) /\ previous' = [elapsed |-> elapsed, ticks |-> ticks]

\* chip8::clock_cycle, the interpreter's part
ClockCycling(delta_time) ==
    /\ ~ub
    /\ \E rand \in RandChoices :
          LET r == clock_cycle(Machine, delta_time, rand)
          IN  Becomes(IF r.ub THEN Fault(Machine) ELSE r)
    /\ op' = [name |-> "clock_cycle", pc |-> m_pc, instruction |-> NextInstruction,
              screen |-> clock_cycle_screen, pressed |-> keys.pressed,
              delta_time |-> delta_time]
    /\ elapsed' = elapsed_add(elapsed, delta_time)
    /\ calls' = clock_cycle_calls
    /\ keys' = [keys EXCEPT !.pressed = {}]
    /\ run500' = IF NextInstruction = -1 THEN -1
                 ELSE clock_cycle_run500(delta_time, decode(NextInstruction))
    /\ UNCHANGED previous

\* chip8::clock_cycle
ClockCycle(delta_time) == ClockCycling(delta_time) /\ UNCHANGED app

\* chip8::set_key_state; assert(key < s_num_keys)
SetKeyState(key, pressed) ==
    /\ ~ub
    /\ key < s_num_keys
    /\ m_keyboard' = [m_keyboard EXCEPT ![key] = pressed]
    /\ op' = [name |-> "set_key_state", key |-> key, pressed |-> pressed]
    /\ keys' = set_key_state_keys(key, pressed)
    /\ UNCHANGED << m_memory, m_v, m_pc, m_i, m_sp, m_delay_timer, m_sound_timer,
                    m_time_counter, ub, elapsed, ticks, run500, previous, calls >>
    /\ UNCHANGED app

\* chip8::set_pixel; the history keeps the pixel's value before the call and
\* the number of set_pixel calls made in a row.
SetPixel(x, y, value) ==
    /\ ~ub
    /\ x < s_screen_width
    /\ y < s_screen_height
    /\ m_memory' = set_pixel(m_memory, x, y, value)
    /\ op' = [name |-> "set_pixel", x |-> x, y |-> y, value |-> value,
              was |-> get_pixel(m_memory, x, y),
              run |-> IF op.name = "set_pixel" THEN op.run + 1 ELSE 1]
    /\ UNCHANGED << m_v, m_pc, m_i, m_sp, m_delay_timer, m_sound_timer,
                    m_time_counter, m_keyboard, ub, elapsed, ticks, run500,
                    previous, calls, keys >>
    /\ UNCHANGED app

\* chip8::chip8
Constructed ==
    /\ m_memory = impl.memory
    /\ m_v = impl.v
    /\ m_pc = impl.pc
    /\ m_i = impl.i
    /\ m_sp = impl.sp
    /\ m_delay_timer = impl.delay_timer
    /\ m_sound_timer = impl.sound_timer
    /\ m_time_counter = impl.time_counter
    /\ m_keyboard = impl.keyboard
    /\ ub = FALSE
    /\ op = [name |-> "impl"]
    /\ elapsed = elapsed_zero
    /\ ticks = 0
    /\ run500 = -1
    /\ previous = [elapsed |-> elapsed_zero, ticks |-> 0]
    /\ calls = << >>
    /\ keys = keys_zero

\* application::application and the locals of application::start: no frame
\* has been timed, the audio device is started and its callback is not running.
Started ==
    /\ time_acc = 0
    /\ main_loop = [at |-> "frame", frames |-> 0, elapsed |-> elapsed_zero, calls |-> 0]
    /\ data_callback = [at |-> "idle", vol |-> 0]

-----------------------------------------------------------------------------
(* Programs                                                                *)

\* The bytes of a program given as 16-bit instruction words (big endian).
Bytes(words) ==
    [k \in 1..(2 * Len(words)) |->
        IF k % 2 = 1 THEN words[(k + 1) \div 2] \div 256
        ELSE words[k \div 2] % 256]

Program(words) == ByteArray(Bytes(words))

\* A sequence of n bytes that starts with `head`; of the rest every 101st byte
\* and the last one are nonzero.
Padded(head, n) ==
    [k \in 1..n |-> IF k <= Len(head) THEN head[k]
                    ELSE IF k % 101 = 0 \/ k = n THEN 1 + (k % 255) ELSE 0]

RomEmpty == ByteArray(<< >>)

RomMain ==
    Program(<< \h6A05,     \* 200  LD   VA, 5
             \h7AFE,     \* 202  ADD  VA, 0xFE
             \h6B03,     \* 204  LD   VB, 3
             \hFB15,     \* 206  LD   DT, VB
             \h6C01,     \* 208  LD   VC, 1
             \hFC18,     \* 20A  LD   ST, VC
             \hF10A,     \* 20C  LD   V1, K
             \hF207,     \* 20E  LD   V2, DT
             \hE19E,     \* 210  SKP  V1
             \h8A14,     \* 212  ADD  VA, V1
             \hA20C,     \* 214  LD   I, 0x20C
             \hF10A,     \* 216  LD   V1, K
             \h1218 >>)  \* 218  JP   0x218

\* The largest program load accepts; it jumps to itself.
RomFull == ByteArray(Padded(Bytes(<< \h1200 >>), s_program_memory))

\* One byte more than load accepts.
RomOversize == ByteArray(Padded(Bytes(<< \h6A07, \h1202 >>), s_program_memory + 1))

Roms == { RomEmpty, RomMain, RomFull, RomOversize }

-----------------------------------------------------------------------------
(* Spec: the interpreter driven by its caller                              *)

\* the calls stop before this many periods have elapsed
MaxPeriods == 3

\* 0, 1/60 s, and 0.04 s, which is 2.4 periods of the 60 Hz timers
Deltas == { 0, s_time_period, D25 }

Keys == { 3, 15 }

Init == Constructed /\ Started

Next ==
    \/ \E rom_data \in Roms : Load(rom_data)
    \/ \E delta_time \in Deltas :
          elapsed_add(elapsed, delta_time).periods < MaxPeriods
             /\ ClockCycle(delta_time)
    \/ \E key \in Keys, pressed \in BOOLEAN : SetKeyState(key, pressed)

Spec == Init /\ [][Next]_vars

TypeOK ==
    /\ m_pc \in 0..65535
    /\ m_i \in 0..65535
    /\ m_sp \in Byte
    /\ \A r \in DOMAIN m_v : m_v[r] \in Byte
    /\ m_delay_timer \in Byte
    /\ m_sound_timer \in Byte

-----------------------------------------------------------------------------
(* SpecRate500: programs that start the delay timer, clocked at 500 Hz     *)

\* DT = 255, then a jump to itself
RomTimerJump == Program(<< \h6AFF, \hFA15, \h1204 >>)

\* DT = 255, then a wait for a key
RomTimerWait == Program(<< \h6AFF, \hFA15, \hFB0A >>)

\* DT = 255, then a loop that reads DT
RomTimerLoop ==
    Program(<< \h6AFF,     \* 200  LD   VA, 0xFF
               \hFA15,     \* 202  LD   DT, VA
               \hFC07,     \* 204  LD   VC, DT
               \h1204 >>)  \* 206  JP   0x204

TimerRoms == { RomTimerJump, RomTimerWait, RomTimerLoop }

MaxPeriodsRate500 == 8

NextRate500 ==
    \/ \E rom_data \in TimerRoms : Load(rom_data)
    \/ \E delta_time \in {0, D500} :
          elapsed_add(elapsed, delta_time).periods < MaxPeriodsRate500
             /\ ClockCycle(delta_time)

SpecRate500 == Init /\ [][NextRate500]_vars

-----------------------------------------------------------------------------
(* SpecTimer: runs of the 60 Hz timers, one after the other, in which the  *)
(* caller changes the rate of its calls                                    *)

MaxPeriodsTimer == 4

\* 0, 1/500 s, 1/60 s
TimerDeltas == { 0, D500, s_time_period }

NextTimer ==
    \/ LoadAfterRun(RomTimerJump)
    \/ \E delta_time \in TimerDeltas :
          elapsed_add(elapsed, delta_time).periods < MaxPeriodsTimer
             /\ ClockCycle(delta_time)

SpecTimer == Init /\ [][NextTimer]_vars

-----------------------------------------------------------------------------
(* SpecDecode: one instruction word after a short preamble                 *)

\* Words that are no documented opcode, and 00E0, 5120 and 8124, which are.
DecodeWords ==
    { \h0000, \h0123, \h01E0, \h02EE, \h5121, \h9121, \h8128, \h812F,
      \hE100, \hE1FF, \hF100, \hF1FF, \h00E0, \h5120, \h8124 }

DecodeRom(word) ==
    Program(<< \h6103,     \* 200  LD   V1, 3
               \h6203,     \* 202  LD   V2, 3
               \h2206,     \* 204  CALL 0x206
               word >>)    \* 206

\* the calls stop before this many periods have elapsed
MaxPeriodsDecode == 1

NextDecode ==
    \/ \E word \in DecodeWords : Load(DecodeRom(word))
    \/ /\ elapsed_add(elapsed, D500).periods < MaxPeriodsDecode
       /\ ClockCycle(D500)

SpecDecode == Init /\ [][NextDecode]_vars

-----------------------------------------------------------------------------
(* SpecDraw: programs that draw a sprite twice, 3 pixels apart             *)

DrawRom(vx, vy, n, addr) ==
    Program(<< \h6000 + vx,        \* 200  LD   V0, vx
               \h6100 + vy,        \* 202  LD   V1, vy
               \hA000 + addr,      \* 204  LD   I, addr
               \hD010 + n,         \* 206  DRW  V0, V1, n
               \h7003,             \* 208  ADD  V0, 3
               \hD010 + n,         \* 20A  DRW  V0, V1, n
               \h120C >>)          \* 20C  JP   0x20C

\* on the screen, across the right edge, beyond the width of a byte
DrawColumns == { 0, 60, 130 }

\* on the screen, across the bottom edge, beyond the height of the screen
DrawRows == { 0, 30, 100 }

DrawHeights == { 0, 5, 15 }

\* the font, and the program itself
DrawSprites == { 0, s_program_start_address }

DrawRoms ==
    { DrawRom(vx, vy, n, addr) :
         vx \in DrawColumns, vy \in DrawRows, n \in DrawHeights, addr \in DrawSprites }

\* the calls stop before this many periods have elapsed
MaxPeriodsDraw == 1

NextDraw ==
    \/ \E rom_data \in DrawRoms : Load(rom_data)
    \/ /\ elapsed_add(elapsed, D500).periods < MaxPeriodsDraw
       /\ ClockCycle(D500)

SpecDraw == Init /\ [][NextDraw]_vars

-----------------------------------------------------------------------------
(* SpecDrawTwice: programs that draw the digit 0 at (0, 0) and then        *)
(* execute one DXYN twice in a row                                         *)

DrawTwiceRom(x, y, vx, vy, n, addr) ==
    Program(<< \hA000,                      \* 200  LD   I, 0
               \hD235,                      \* 202  DRW  V2, V3, 5
               \h6F07,                      \* 204  LD   VF, 7
               \h6000 + 256 * x + vx,       \* 206  LD   Vx, vx
               \h6000 + 256 * y + vy,       \* 208  LD   Vy, vy
               \hA000 + addr,               \* 20A  LD   I, addr
               \hD000 + 256 * x + 16 * y + n,   \* 20C  DRW  Vx, Vy, n
               \hD000 + 256 * x + 16 * y + n,   \* 20E  DRW  Vx, Vy, n
               \h1210 >>)                   \* 210  JP   0x210

\* X and Y: neither is VF, X is VF, Y is VF
DrawTwiceRegisters == { << 4, 5 >>, << 15, 5 >>, << 4, 15 >> }

DrawTwiceColumns == { 0, 2, 62 }

DrawTwiceRows == { 0, 30 }

DrawTwiceHeights == { 0, 1, 5 }

\* the digit 0 of the font, the digit 1, the first bytes of the framebuffer
DrawTwiceSprites == { 0, 5, s_display_address }

DrawTwiceRoms ==
    { DrawTwiceRom(r[1], r[2], vx, vy, n, addr) :
         r \in DrawTwiceRegisters, vx \in DrawTwiceColumns, vy \in DrawTwiceRows,
         n \in DrawTwiceHeights, addr \in DrawTwiceSprites }

\* the calls stop before this many periods have elapsed
MaxPeriodsDrawTwice == 2

NextDrawTwice ==
    \/ \E rom_data \in DrawTwiceRoms : op.name = "impl" /\ Load(rom_data)
    \/ /\ elapsed_add(elapsed, D500).periods < MaxPeriodsDrawTwice
       /\ ClockCycle(D500)

SpecDrawTwice == Init /\ [][NextDrawTwice]_vars

-----------------------------------------------------------------------------
(* SpecAlu: programs that set VF, VX and VY and execute one arithmetic     *)
(* instruction on them                                                     *)

AluRom(x, y, vx, vy, word) ==
    Program(<< \h6F07,                      \* 200  LD   VF, 7
               \h6000 + 256 * x + vx,       \* 202  LD   Vx, vx
               \h6000 + 256 * y + vy,       \* 204  LD   Vy, vy
               word,                        \* 206  the instruction
               \h1208 >>)                   \* 208  JP   0x208

\* X and Y: two registers, one register, Y is VF, X is VF
AluRegisters == { << 1, 2 >>, << 1, 1 >>, << 1, 15 >>, << 15, 2 >> }

AluValues == { 0, 1, 2, 5, 127, 128, 255 }

\* ADD, SUB, SHR, SUBN, SHL Vx, Vy and ADD Vx, nn with the value of Vy as nn
AluWords(x, y, vy) ==
    { \h8000 + 256 * x + 16 * y + n : n \in { 4, 5, 6, 7, 14 } }
       \cup { \h7000 + 256 * x + vy }

AluRoms ==
    UNION { { AluRom(r[1], r[2], vx, vy, word) : word \in AluWords(r[1], r[2], vy) } :
               r \in AluRegisters, vx \in AluValues, vy \in AluValues }

\* the calls stop before this many periods have elapsed
MaxPeriodsAlu == 1

NextAlu ==
    \/ \E rom_data \in AluRoms : op.name = "impl" /\ Load(rom_data)
    \/ /\ elapsed_add(elapsed, D500).periods < MaxPeriodsAlu
       /\ ClockCycle(D500)

SpecAlu == Init /\ [][NextAlu]_vars

-----------------------------------------------------------------------------
(* SpecSkip: programs that set VX, VY and the delay timer and execute one  *)
(* conditional skip, while key 3 goes down and up                          *)

SkipRom(x, y, vx, vy, word) ==
    Program(<< \h6000 + 256 * x + vx,       \* 200  LD   Vx, vx
               \h6000 + 256 * y + vy,       \* 202  LD   Vy, vy
               \h6A03,                      \* 204  LD   VA, 3
               \hFA15,                      \* 206  LD   DT, VA
               word,                        \* 208  the skip
               \h120A,                      \* 20A  JP   0x20A
               \h120C >>)                   \* 20C  JP   0x20C

\* X and Y: two registers, one register
SkipRegisters == { << 1, 2 >>, << 1, 1 >> }

\* a key that is not touched, the key that goes down and up, no key at all
SkipValues == { 0, 3, 200 }

\* SE and SNE Vx, nn with the value of Vy as nn; SE and SNE Vx, Vy; SKP and
\* SKNP Vx
SkipWords(x, y, vy) ==
    { \h3000 + 256 * x + vy, \h4000 + 256 * x + vy,
      \h5000 + 256 * x + 16 * y, \h9000 + 256 * x + 16 * y,
      \hE09E + 256 * x, \hE0A1 + 256 * x }

SkipRoms ==
    UNION { { SkipRom(r[1], r[2], vx, vy, word) : word \in SkipWords(r[1], r[2], vy) } :
               r \in SkipRegisters, vx \in SkipValues, vy \in SkipValues }

\* no time at all, 0.04 s
SkipDeltas == { 0, D25 }

\* the calls stop before this many periods have elapsed
MaxPeriodsSkip == 3

NextSkip ==
    \/ \E rom_data \in SkipRoms : op.name = "impl" /\ Load(rom_data)
    \/ \E delta_time \in SkipDeltas :
          /\ elapsed_add(elapsed, delta_time).periods < MaxPeriodsSkip
          /\ ClockCycle(delta_time)
    \/ \E pressed \in BOOLEAN : SetKeyState(3, pressed)

SpecSkip == Init /\ [][NextSkip]_vars

-----------------------------------------------------------------------------
(* SpecCall: programs of nested subroutines                                *)

\* Subroutine k of the chain: it calls subroutine k + 1 and returns; the
\* last one only returns, and the main program (k = 0) does not return.
ChainWords(k, depth) ==
    IF k = depth THEN << \h00EE, \h0000 >>
    ELSE << \h2000 + s_program_start_address + 4 * (k + 1),
            IF k = 0 THEN \h1202 ELSE \h00EE >>

RECURSIVE ChainProgram(_, _)
ChainProgram(k, depth) ==
    IF k > depth THEN << >>
    ELSE ChainWords(k, depth) \o ChainProgram(k + 1, depth)

\* 200: CALL 0x204; 202: JP 0x202; 204: CALL 0x208; 206: RET; ...
ChainRom(depth) == Program(ChainProgram(0, depth))

\* the deepest nestings that fit in 0xEA0..0xEFF and the first that does not
ChainDepths == { 1, 2, 47, 48 }

\* 200: CALL 0x200
RomRecursion == Program(<< \h2200 >>)

\* 200: RET, with no call made
RomReturn == Program(<< \h00EE >>)

CallRoms == { ChainRom(depth) : depth \in ChainDepths } \cup { RomRecursion, RomReturn }

\* the calls stop before this many periods have elapsed
MaxPeriodsCall == 16

NextCall ==
    \/ \E rom_data \in CallRoms : op.name = "impl" /\ Load(rom_data)
    \/ /\ elapsed_add(elapsed, D500).periods < MaxPeriodsCall
       /\ ClockCycle(D500)

SpecCall == Init /\ [][NextCall]_vars

-----------------------------------------------------------------------------
(* SpecBcd: programs that set VX and I and execute FX33                    *)

BcdRom(x, vx, addr) ==
    Program(<< \h6000 + 256 * x + vx,       \* 200  LD   Vx, vx
               \hA000 + addr,               \* 202  LD   I, addr
               \hF033 + 256 * x,            \* 204  LD   B, Vx
               \h1206 >>)                   \* 206  JP   0x206

BcdRegisters == { 1, 15 }

\* free memory, the instruction itself, the framebuffer, the last three
\* bytes of memory, the last two
BcdAddresses == { 768, 516, s_display_address, s_total_memory - 3, s_total_memory - 2 }

BcdRoms == { BcdRom(x, vx, addr) : x \in BcdRegisters, vx \in Byte, addr \in BcdAddresses }

\* the calls stop before this many periods have elapsed
MaxPeriodsBcd == 1

NextBcd ==
    \/ \E rom_data \in BcdRoms : op.name = "impl" /\ Load(rom_data)
    \/ /\ elapsed_add(elapsed, D500).periods < MaxPeriodsBcd
       /\ ClockCycle(D500)

SpecBcd == Init /\ [][NextBcd]_vars

-----------------------------------------------------------------------------
(* SpecCopy: programs that store V0..VX at I, load them back and then load *)
(* them from other bytes                                                   *)

CopyRom(x, addr, from) ==
    Program(<< \h6011,                      \* 200  LD   V0, 0x11
               \h6122,                      \* 202  LD   V1, 0x22
               \h6233,                      \* 204  LD   V2, 0x33
               \h6F44,                      \* 206  LD   VF, 0x44
               \hA000 + addr,               \* 208  LD   I, addr
               \hF055 + 256 * x,            \* 20A  LD   [I], Vx
               \hF065 + 256 * x,            \* 20C  LD   Vx, [I]
               \hA000 + from,               \* 20E  LD   I, from
               \hF065 + 256 * x,            \* 210  LD   Vx, [I]
               \h1212 >>)                   \* 212  JP   0x212

CopyRegisters == { 0, 1, 2, 15 }

\* free memory, the store instruction itself, the last 16 bytes of memory,
\* the last 15
CopyAddresses == { 768, 522, s_total_memory - 16, s_total_memory - 15 }

\* the font, the program
CopySources == { 0, s_program_start_address }

CopyRoms ==
    { CopyRom(x, addr, from) :
         x \in CopyRegisters, addr \in CopyAddresses, from \in CopySources }

\* the calls stop before this many periods have elapsed
MaxPeriodsCopy == 2

NextCopy ==
    \/ \E rom_data \in CopyRoms : op.name = "impl" /\ Load(rom_data)
    \/ /\ elapsed_add(elapsed, D500).periods < MaxPeriodsCopy
       /\ ClockCycle(D500)

SpecCopy == Init /\ [][NextCopy]_vars

-----------------------------------------------------------------------------
(* SpecFont: programs that write over the font, loaded one after another   *)

\* the glyph of 0 becomes AA 22 33 90 F0
RomFontHead ==
    Program(<< \h60AA,     \* 200  LD   V0, 0xAA
               \h6122,     \* 202  LD   V1, 0x22
               \h6233,     \* 204  LD   V2, 0x33
               \hA000,     \* 206  LD   I, 0
               \hF255,     \* 208  LD   [I], V2
               \h6300,     \* 20A  LD   V3, 0
               \hF329,     \* 20C  LD   F, V3
               \h120E >>)  \* 20E  JP   0x20E

\* the glyphs of D, E and F become 0: the 16 bytes from 0x40 are V0..VF
RomFontTail ==
    Program(<< \hA040,     \* 200  LD   I, 0x40
               \hFF55,     \* 202  LD   [I], VF
               \h1204 >>)  \* 204  JP   0x204

FontRoms == { RomFontHead, RomFontTail, RomEmpty, RomOversize }

\* the calls stop before this many periods have elapsed
MaxPeriodsFont == 2

NextFont ==
    \/ \E rom_data \in FontRoms : Load(rom_data)
    \/ /\ elapsed_add(elapsed, D500).periods < MaxPeriodsFont
       /\ ClockCycle(D500)

SpecFont == Init /\ [][NextFont]_vars

-----------------------------------------------------------------------------
(* SpecPixel: pixels set and cleared on the splash screen and on the blank *)
(* screen of a load                                                        *)

PixelColumns == 0..(s_screen_width - 1)

PixelRows == { 0, s_screen_height - 1 }

\* set_pixel calls made in a row
MaxSetPixels == 3

\* After the first call the calls are for the same pixel.
NextPixel ==
    \/ op.name = "impl" /\ Load(RomEmpty)
    \/ \E x \in PixelColumns, y \in PixelRows, value \in BOOLEAN :
          /\ op.name # "set_pixel"
          /\ SetPixel(x, y, value)
    \/ \E value \in BOOLEAN :
          /\ op.name = "set_pixel"
          /\ op.run < MaxSetPixels
          /\ SetPixel(op.x, op.y, value)

SpecPixel == Init /\ [][NextPixel]_vars

-----------------------------------------------------------------------------
(* SpecCls: a program that starts the timers, makes a call, draws and      *)
(* clears the screen, while the caller sets pixels                         *)

RomCls ==
    Program(<< \h6A03,     \* 200  LD   VA, 3
               \hFA15,     \* 202  LD   DT, VA
               \hFA18,     \* 204  LD   ST, VA
               \hA005,     \* 206  LD   I, 5
               \h220C,     \* 208  CALL 0x20C
               \h120A,     \* 20A  JP   0x20A
               \hD125,     \* 20C  DRW  V1, V2, 5
               \h6F07,     \* 20E  LD   VF, 7
               \h00E0,     \* 210  CLS
               \h1212 >>)  \* 212  JP   0x212

\* 1/500 s, and 0.04 s, which is 2.4 periods of the 60 Hz timers
ClsDeltas == { D500, D25 }

\* the first and the last pixel of the screen
ClsPixels == { << 0, 0 >>, << 63, 31 >> }

\* the calls stop before this many periods have elapsed
MaxPeriodsCls == 3

NextCls ==
    \/ op.name = "impl" /\ Load(RomCls)
    \/ \E delta_time \in ClsDeltas :
          /\ elapsed_add(elapsed, delta_time).periods < MaxPeriodsCls
          /\ ClockCycle(delta_time)
    \/ \E p \in ClsPixels : ~get_pixel(m_memory, p[1], p[2]) /\ SetPixel(p[1], p[2], TRUE)

SpecCls == Init /\ [][NextCls]_vars

-----------------------------------------------------------------------------
(* SpecBounds: programs that take PC and I to the end of memory            *)

\* 200: JP 0xFFF
RomJumpToEnd == Program(<< \h1FFF >>)

\* 200: LD V0, 0xFF; 202: JP V0, 0xFFF
RomJumpPastEnd == Program(<< \h60FF, \hBFFF >>)

\* 200: LD I, 0xFFF; 202: LD [I], V1
RomStoreAtEnd == Program(<< \hAFFF, \hF155 >>)

\* 200: LD I, 0xFFF; 202: LD V1, [I]
RomLoadAtEnd == Program(<< \hAFFF, \hF165 >>)

\* 200: LD I, 0xFFE; 202: LD B, V1
RomBcdAtEnd == Program(<< \hAFFE, \hF133 >>)

\* 200: LD I, 0xFFF; 202: DRW V0, V0, 2
RomDrawAtEnd == Program(<< \hAFFF, \hD002 >>)

\* 200: LD V1, 200; 202: SKP V1
RomKeyOutside == Program(<< \h61C8, \hE19E >>)

\* 200: LD I, 0xFFD; 202: LD B, V1; 204: LD [I], V2; 206: LD V2, [I];
\* 208: DRW V0, V0, 3; 20A: JP 0x200
RomInsideToTheEnd ==
    Program(<< \hAFFD, \hF133, \hF255, \hF265, \hD003, \h1200 >>)

BoundsRoms ==
    { RomJumpToEnd, RomJumpPastEnd, RomStoreAtEnd, RomLoadAtEnd, RomBcdAtEnd,
      RomDrawAtEnd, RomKeyOutside, RomInsideToTheEnd, RomRecursion }

\* 1/500 s, and 0.04 s, which is 2.4 periods of the 60 Hz timers
BoundsDeltas == { D500, D25 }

\* the calls stop before this many periods have elapsed
MaxPeriodsBounds == 3

NextBounds ==
    \/ \E rom_data \in BoundsRoms : op.name = "impl" /\ Load(rom_data)
    \/ \E delta_time \in BoundsDeltas :
          /\ elapsed_add(elapsed, delta_time).periods < MaxPeriodsBounds
          /\ ClockCycle(delta_time)
    \/ \E pressed \in BOOLEAN : SetKeyState(3, pressed)

SpecBounds == Init /\ [][NextBounds]_vars

-----------------------------------------------------------------------------
(* SpecRandom: a program that draws random bytes                           *)

RomRandom ==
    Program(<< \hC10F,     \* 200  RND  V1, 0x0F
               \hC203,     \* 202  RND  V2, 0x03
               \hC300,     \* 204  RND  V3, 0
               \h8124,     \* 206  ADD  V1, V2
               \h3100,     \* 208  SE   V1, 0
               \h120A,     \* 20A  JP   0x20A
               \h120C >>)  \* 20C  JP   0x20C

\* 1/500 s, and 0.04 s, which is 2.4 periods of the 60 Hz timers
RandomDeltas == { D500, D25 }

\* the calls stop before this many periods have elapsed
MaxPeriodsRandom == 3

NextRandom ==
    \/ op.name = "impl" /\ Load(RomRandom)
    \/ \E delta_time \in RandomDeltas :
          /\ elapsed_add(elapsed, delta_time).periods < MaxPeriodsRandom
          /\ ClockCycle(delta_time)

SpecRandom == Init /\ [][NextRandom]_vars

-----------------------------------------------------------------------------
(* SpecTransfer: a program that sets and reads the timers while they run   *)

RomTransfer ==
    Program(<< \h6A03,     \* 200  LD   VA, 3
               \hFA15,     \* 202  LD   DT, VA
               \hFA18,     \* 204  LD   ST, VA
               \hFB07,     \* 206  LD   VB, DT
               \hFA15,     \* 208  LD   DT, VA
               \hFC07,     \* 20A  LD   VC, DT
               \hFA18,     \* 20C  LD   ST, VA
               \h1206 >>)  \* 20E  JP   0x206

\* 1/500 s, and 0.04 s, which is 2.4 periods of the 60 Hz timers
TransferDeltas == { D500, D25 }

\* the calls stop before this many periods have elapsed
MaxPeriodsTransfer == 4

NextTransfer ==
    \/ op.name = "impl" /\ Load(RomTransfer)
    \/ \E delta_time \in TransferDeltas :
          /\ elapsed_add(elapsed, delta_time).periods < MaxPeriodsTransfer
          /\ ClockCycle(delta_time)

SpecTransfer == Init /\ [][NextTransfer]_vars

-----------------------------------------------------------------------------
(* SpecSplash: the interpreter as constructed, clocked before any program  *)
(* has been loaded; the only load is one that is rejected                  *)

\* 0, 1/500 s, 1/60 s, and 0.04 s, which is 2.4 periods of the 60 Hz timers
SplashDeltas == { 0, D500, s_time_period, D25 }

\* the calls stop before this many periods have elapsed
MaxPeriodsSplash == 3

NextSplash ==
    \/ Load(RomOversize)
    \/ \E delta_time \in SplashDeltas :
          /\ elapsed_add(elapsed, delta_time).periods < MaxPeriodsSplash
          /\ ClockCycle(delta_time)
    \/ \E pressed \in BOOLEAN : SetKeyState(0, pressed)

SpecSplash == Init /\ [][NextSplash]_vars

-----------------------------------------------------------------------------
(* SpecStall: programs that start the sound timer and then hold PC, at a   *)
(* wait for a key that is never pressed or at an unknown opcode             *)

RomStallKey ==
    Program(<< \h6A02,     \* 200  LD   VA, 2
               \hFA18,     \* 202  LD   ST, VA
               \hFB0A >>)  \* 204  LD   VB, K

RomStallUnknown ==
    Program(<< \h6A02,     \* 200  LD   VA, 2
               \hFA18,     \* 202  LD   ST, VA
               \h0000 >>)  \* 204  unknown

StallRoms == { RomStallKey, RomStallUnknown }

\* 1/500 s, the clock period of the application
StallDeltas == { D500 }

\* The float 2^-31 s, in units of 2^-33 s
TinyDelta == 4

\* the calls stop before this many periods have elapsed
MaxPeriodsStall == 4

\* A call with one of the StallDeltas.
StallClockCycle ==
    \E delta_time \in StallDeltas :
       /\ elapsed_add(elapsed, delta_time).periods < MaxPeriodsStall
       /\ ClockCycle(delta_time)

\* A call with TinyDelta, the first since the load: the time elapsed is
\* still a multiple of 1/500 s.
TinyClockCycle ==
    /\ elapsed_add(elapsed, D500).periods < MaxPeriodsStall
    /\ (elapsed.periods * s_time_period + elapsed.rest) % D500 = 0
    /\ ClockCycle(TinyDelta)

NextStall ==
    \/ \E rom_data \in StallRoms : op.name = "impl" /\ Load(rom_data)
    \/ StallClockCycle
    \/ TinyClockCycle

\* What a StallClockCycle step does to the time given to the interpreter;
\* no other step of NextStall does it.
StallTime ==
    /\ ~ub
    /\ \E delta_time \in StallDeltas :
          /\ elapsed_add(elapsed, delta_time).periods < MaxPeriodsStall
          /\ elapsed' = elapsed_add(elapsed, delta_time)

\* The caller goes on calling clock_cycle with a delta_time of StallDeltas
\* for as long as the bound lets it.
SpecStall == Init /\ [][NextStall]_vars /\ WF_elapsed(StallTime)

-----------------------------------------------------------------------------
(* SpecMainLoop: application::start drives the interpreter, frame by       *)
(* frame, while the audio device calls back                                *)

\* float clock_period = 1.0f / m_config.clock_frequency, with the
\* clock_frequency of application.h, 500
clock_period == D500

\* History: the exact sum of the frame times, as the number of whole
\* clock periods and the rest.
frame_time_add(e, dt) ==
    LET r == e.rest + dt
    IN  [periods |-> e.periods + r \div clock_period, rest |-> r % clock_period]

\* The head of the main loop: the time since the last frame is measured and
\* added to time_acc.
Frame(dt) ==
    /\ main_loop.at = "frame"
    /\ time_acc' = f32_add(time_acc, dt)
    /\ main_loop' = [main_loop EXCEPT !.at = "update", !.frames = @ + 1,
                                      !.elapsed = frame_time_add(@, dt)]
    /\ UNCHANGED << m_memory, m_v, m_pc, m_i, m_sp, m_delay_timer, m_sound_timer,
                    m_time_counter, m_keyboard, ub, op, elapsed, ticks, run500,
                    previous, calls, keys, data_callback >>

\* while (time_acc >= clock_period): time_acc -= clock_period, and the main
\* thread enters m_chip8->clock_cycle(clock_period).
Update ==
    /\ main_loop.at = "update"
    /\ time_acc >= clock_period
    /\ time_acc' = f32_sub(time_acc, clock_period)
    /\ main_loop' = [main_loop EXCEPT !.at = "clock_cycle"]
    /\ UNCHANGED << m_memory, m_v, m_pc, m_i, m_sp, m_delay_timer, m_sound_timer,
                    m_time_counter, m_keyboard, ub, op, elapsed, ticks, run500,
                    previous, calls, keys, data_callback >>

\* m_chip8->clock_cycle(clock_period) runs and returns to the loop.
UpdateClockCycle ==
    /\ main_loop.at = "clock_cycle"
    /\ ClockCycling(clock_period)
    /\ main_loop' = [main_loop EXCEPT !.at = "update", !.calls = @ + 1]
    /\ UNCHANGED << time_acc, data_callback >>

\* The while loop ends; the frame is rendered and the events are polled.
Render ==
    /\ main_loop.at = "update"
    /\ time_acc < clock_period
    /\ main_loop' = [main_loop EXCEPT !.at = "frame"]
    /\ UNCHANGED << m_memory, m_v, m_pc, m_i, m_sp, m_delay_timer, m_sound_timer,
                    m_time_counter, m_keyboard, ub, op, elapsed, ticks, run500,
                    previous, calls, keys, time_acc, data_callback >>

\* beep::impl::data_callback: the audio device asks for samples, from its own
\* thread, and the callback enters m_vol_fn, which calls get_sound_timer.
DataCallback ==
    /\ data_callback.at = "idle"
    /\ data_callback' = [data_callback EXCEPT !.at = "get_sound_timer"]
    /\ UNCHANGED << m_memory, m_v, m_pc, m_i, m_sp, m_delay_timer, m_sound_timer,
                    m_time_counter, m_keyboard, ub, op, elapsed, ticks, run500,
                    previous, calls, keys, time_acc, main_loop >>

\* chip8::get_sound_timer returns m_sound_timer to the volume function:
\* (m_chip8->get_sound_timer() > 0 ? 1.0f : 0.0f), the volume setting aside.
GetSoundTimer ==
    /\ data_callback.at = "get_sound_timer"
    /\ data_callback' = [at |-> "idle", vol |-> IF m_sound_timer > 0 THEN 1 ELSE 0]
    /\ UNCHANGED << m_memory, m_v, m_pc, m_i, m_sp, m_delay_timer, m_sound_timer,
                    m_time_counter, m_keyboard, ub, op, elapsed, ticks, run500,
                    previous, calls, keys, time_acc, main_loop >>

\* a program that sounds the tone for two ticks
RomBeep ==
    Program(<< \h6A02,     \* 200  LD   VA, 2
               \hFA18,     \* 202  LD   ST, VA
               \h1204 >>)  \* 204  JP   0x204

\* 1/60 s, the frame time of a 60 Hz display, and 0.04 s
FrameDeltas == { s_time_period, D25 }

\* the main loop stops after this many frames
MaxFrames == 3

NextMainLoop ==
    \/ main_loop.at = "frame" /\ main_loop.frames = 0 /\ op.name = "impl" /\ Load(RomBeep)
    \/ \E dt \in FrameDeltas : main_loop.frames < MaxFrames /\ Frame(dt)
    \/ Update
    \/ UpdateClockCycle
    \/ Render
    \/ DataCallback
    \/ GetSoundTimer

SpecMainLoop == Init /\ [][NextMainLoop]_vars

-----------------------------------------------------------------------------
(* Vocabulary of the properties                                            *)

NoKey == [k \in 0..15 |-> FALSE]

\* The 16-bit word at m_pc, high byte first.
Word == 256 * mem_get(m_memory, m_pc) + mem_get(m_memory, m_pc + 1)

WordX == (Word \div 256) % 16
WordY == (Word \div 16) % 16
WordN == Word % 16
WordNN == Word % 256
WordFamily == Word \div 4096

\* The step is a clock_cycle call that ran to its end.
Cycle == op'.name = "clock_cycle" /\ ~ub'

\* The opcodes that neither transfer control nor skip nor wait.
PlainOpcode ==
    \/ Word = \h00E0
    \/ WordFamily \in {6, 7, 10, 12, 13}
    \/ WordFamily = 8 /\ WordN \in {0, 1, 2, 3, 4, 5, 6, 7, 14}
    \/ WordFamily = 15 /\ WordNN \in {\h07, \h15, \h18, \h1E, \h29, \h33, \h55, \h65}

\* The conditional skips.
SkipOpcode ==
    \/ WordFamily \in {3, 4}
    \/ WordFamily \in {5, 9} /\ WordN = 0
    \/ WordFamily = 14 /\ WordNN \in {\h9E, \hA1}

\* The 35 documented opcodes (0NNN, the call of a machine code routine, is
\* documented but no instruction of this interpreter).
DocumentedOpcode ==
    \/ PlainOpcode
    \/ SkipOpcode
    \/ Word = \h00EE
    \/ WordFamily \in {1, 2, 11}
    \/ WordFamily = 15 /\ WordNN = \h0A

Max(a, b) == IF a >= b THEN a ELSE b

-----------------------------------------------------------------------------
(* Properties of Spec                                                      *)

\* C1: after a load of at most 3232 bytes, from whatever state, PC = 0x200,
\* SP = 0, I = 0, both timers are 0, V0..VF are 0, no key is down, the timer
\* accumulator is 0, memory[0x200 + k] is byte k of the program, the first 80
\* bytes are the font and every other byte of memory is 0.
C1_LoadLeavesOnlyTheProgram ==
    (op.name = "load" /\ op.rom_data.length <= 3232) =>
        /\ m_pc = 512 /\ m_sp = 0 /\ m_i = 0
        /\ m_delay_timer = 0 /\ m_sound_timer = 0 /\ m_time_counter = 0
        /\ m_v = [r \in 0..15 |-> 0]
        /\ m_keyboard = NoKey
        /\ DOMAIN m_memory \subseteq 0..4095
        /\ \A a \in 0..4095 :
              mem_get(m_memory, a) =
                 IF a < 80 THEN s_characters[a + 1]
                 ELSE IF a >= 512 /\ a < 512 + op.rom_data.length
                      THEN byte_at(op.rom_data, a - 512)
                      ELSE 0

\* A full-size program loaded over a program that had run, with a timer
\* counting and a key down.
C1_Witness ==
    /\ op.name = "load"
    /\ op.rom_data.length = 3232
    /\ op.before.pc > 512
    /\ op.before.delay_timer > 0
    /\ op.before.pressed # {}
    /\ mem_get(m_memory, 512 + 3231) # 0
    /\ m_pc = 512

\* C2: a load of more than 3232 bytes changes nothing: memory, V0..VF, PC,
\* SP, I, both timers, the timer accumulator and the keys keep their values.
C2_OversizeLoadChangesNothing ==
    [][(op'.name = "load" /\ op'.rom_data.length > 3232) =>
          UNCHANGED << m_memory, m_v, m_pc, m_sp, m_i, m_delay_timer,
                       m_sound_timer, m_time_counter, m_keyboard >>]_vars

\* A rejected load over a program that had run, with a timer counting and a
\* key down, all of which are still there.
C2_Witness ==
    /\ op.name = "load"
    /\ op.rom_data.length = 3233
    /\ op.before.pc > 512
    /\ m_pc = op.before.pc
    /\ m_delay_timer > 0
    /\ m_keyboard[15]
    /\ m_v[10] = 3
    /\ mem_get(m_memory, 512) = \h6A

\* C3: one clock_cycle call executes one instruction, whatever delta_time is:
\* after an opcode that neither jumps nor skips nor waits PC is 2 more than
\* before, after a conditional skip it is 2 or 4 more, and 6XNN (the word read
\* high byte first) leaves NN in VX and the other registers as they were.
C3_OneInstructionPerCycle ==
    [][Cycle =>
          /\ PlainOpcode => m_pc' = m_pc + 2
          /\ SkipOpcode => m_pc' \in {m_pc + 2, m_pc + 4}
          /\ WordFamily = 6 => m_v' = [m_v EXCEPT ![WordX] = WordNN]]_vars

\* 0x6A05 at 0x200 executed by the first call after the load, whose
\* delta_time spans two timer periods.
C3_Witness ==
    /\ op.name = "clock_cycle"
    /\ op.instruction = \h6A05
    /\ op.pc = 512
    /\ elapsed.periods = 2 /\ elapsed.rest > 0
    /\ ticks = 2
    /\ m_v[10] = 5
    /\ m_pc = 514

\* C5: a clock_cycle at FX0A while no key is down leaves PC, V0..VF, I, SP and
\* memory as they were; with a key down it sets VX to the smallest index of a
\* key that is down, moves PC on by 2 and changes nothing else of these.
C5_WaitForKey ==
    [][(Cycle /\ WordFamily = 15 /\ WordNN = \h0A) =>
          IF m_keyboard = NoKey
          THEN UNCHANGED << m_pc, m_v, m_i, m_sp, m_memory >>
          ELSE /\ m_keyboard[m_v'[WordX]]
               /\ \A k \in 0..15 : m_keyboard[k] => m_v'[WordX] <= k
               /\ m_v' = [m_v EXCEPT ![WordX] = m_v'[WordX]]
               /\ m_pc' = m_pc + 2
               /\ UNCHANGED << m_i, m_sp, m_memory >>]_vars

\* Keys 3 and 15 are both down when F10A runs: V1 becomes 3.
C5_Witness ==
    /\ op.name = "clock_cycle"
    /\ op.instruction = \hF10A
    /\ m_keyboard[3] /\ m_keyboard[15]
    /\ m_v[1] = 3
    /\ m_pc = op.pc + 2

\* C8: both timers stay in 0..255; a clock_cycle that applies n ticks lowers
\* each timer by n but not below 0, except that FX15 then sets the delay timer
\* to VX (and not the sound timer) and FX18 the sound timer (and not the delay
\* timer).
C8_TimersFloorAtZero ==
    [][/\ m_delay_timer' \in 0..255
       /\ m_sound_timer' \in 0..255
       /\ Cycle =>
            /\ m_delay_timer' =
                  IF WordFamily = 15 /\ WordNN = \h15 THEN m_v[WordX]
                  ELSE Max(m_delay_timer - (ticks' - ticks), 0)
            /\ m_sound_timer' =
                  IF WordFamily = 15 /\ WordNN = \h18 THEN m_v[WordX]
                  ELSE Max(m_sound_timer - (ticks' - ticks), 0)]_vars

\* Two ticks in one call: the sound timer, at 1, stops at 0 while the delay
\* timer goes from 3 to 1.
C8_Witness ==
    /\ op.name = "clock_cycle"
    /\ elapsed = elapsed_add(elapsed_zero, D25)
    /\ ticks = 2
    /\ m_v[11] = 3 /\ m_v[12] = 1
    /\ m_delay_timer = 1
    /\ m_sound_timer = 0

-----------------------------------------------------------------------------
(* Properties of SpecDecode                                                *)

\* C4: a clock_cycle at a word that is none of the documented opcodes leaves
\* PC at the address of the word and changes no register, no byte of memory
\* and no pixel.
C4_UndocumentedWordsStall ==
    [][(Cycle /\ ~DocumentedOpcode) =>
          UNCHANGED << m_pc, m_v, m_i, m_sp, m_memory >>]_vars

-----------------------------------------------------------------------------
(* Properties of SpecDraw                                                  *)

\* Bit (7 - j) of a byte.
SpriteBit(byte, j) == (byte \div (2 ^ (7 - j))) % 2 = 1

\* The sprite of the DXYN at m_pc has a set bit that falls on pixel (x, y).
SpriteCovers(x, y) ==
    \E i \in 0..(WordN - 1), j \in 0..7 :
        /\ x = (m_v[WordX] + j) % 64
        /\ y = (m_v[WordY] + i) % 32
        /\ SpriteBit(mem_get(m_memory, m_i + i), j)

\* C10: DXYN with X, Y other than F and I + N <= 0xF00 XORs bit (7-j) of
\* memory[I+i] into pixel ((VX+j) mod 64, (VY+i) mod 32) for 0 <= i < N and
\* 0 <= j < 8, changes no other pixel, and leaves I, VX, VY and the bytes
\* below the framebuffer, the sprite among them, as they were.
C10_DrawXorsSprite ==
    [][(Cycle /\ WordFamily = 13 /\ WordX # 15 /\ WordY # 15
              /\ m_i + WordN <= 3840) =>
          /\ \A x \in 0..63, y \in 0..31 :
                get_pixel(m_memory', x, y) =
                   (get_pixel(m_memory, x, y) # SpriteCovers(x, y))
          /\ m_i' = m_i
          /\ m_v'[WordX] = m_v[WordX]
          /\ m_v'[WordY] = m_v[WordY]
          /\ \A a \in 0..3839 : mem_get(m_memory', a) = mem_get(m_memory, a)]_vars

\* The digit 0 of the font drawn at (60, 30) and again at (63, 30): the
\* second sprite wraps around the right and the bottom edge, turns pixel
\* (63, 30) of the first one off and leaves its pixel (60, 30) on.
C10_Witness ==
    /\ op.name = "clock_cycle"
    /\ op.instruction = \hD015
    /\ op.pc = 522
    /\ m_i = 0
    /\ m_v[0] = 63 /\ m_v[1] = 30
    /\ get_pixel(m_memory, 0, 30)
    /\ get_pixel(m_memory, 2, 0)
    /\ ~get_pixel(m_memory, 63, 30)
    /\ get_pixel(m_memory, 60, 30)

-----------------------------------------------------------------------------
(* Properties of SpecDrawTwice                                             *)

\* A pixel that is on before the step is off after it.
PixelTurnedOff ==
    \E x \in 0..63, y \in 0..31 :
        get_pixel(m_memory, x, y) /\ ~get_pixel(m_memory', x, y)

\* C11: after DXYN, VF is 1 if a pixel that was on before the instruction is
\* off after it and 0 if there is none, whatever VF was; DXY0 changes no pixel
\* and leaves VF = 0.
C11_CollisionFlag ==
    [][(Cycle /\ WordFamily = 13) =>
          /\ m_v'[15] = (IF PixelTurnedOff THEN 1 ELSE 0)
          /\ WordN = 0 =>
                /\ video_memory(m_memory') = video_memory(m_memory)
                /\ m_v'[15] = 0]_vars

\* The digit 0 drawn over itself while VF was 7: its pixels are off, VF is 1.
C11_Witness ==
    /\ op.name = "clock_cycle"
    /\ op.instruction = \hD455
    /\ op.pc = 524
    /\ m_i = 0 /\ m_v[4] = 0 /\ m_v[5] = 0
    /\ get_pixel(op.screen, 0, 0)
    /\ ~get_pixel(m_memory, 0, 0)
    /\ m_v[15] = 1

\* The step executes the DXYN that the call before it has executed.
SameDrawAgain ==
    /\ Cycle
    /\ WordFamily = 13
    /\ op.name = "clock_cycle"
    /\ op.instruction = Word

\* C12 as it is stated: whatever the framebuffer, I, VX, VY, X, Y and N are,
\* a DXYN executed twice in a row leaves every pixel as it was before the
\* first of the two.
C12_DrawTwiceRestoresScreen ==
    [][SameDrawAgain => video_memory(m_memory') = op.screen]_vars

\* C12, amended: for X and Y other than F and a sprite outside the
\* framebuffer (I + N <= 0xF00), a DXYN executed twice in a row leaves every
\* pixel as it was before the first of the two.
C12_DrawTwiceRestoresScreenOutsideSprite ==
    [][(SameDrawAgain /\ WordX # 15 /\ WordY # 15 /\ m_i + WordN <= 3840) =>
          video_memory(m_memory') = op.screen]_vars

\* The digit 0 drawn twice at (62, 30), across both edges: the second draw
\* has turned its pixels off again and the digit at (0, 0) is as it was.
C12_Witness ==
    /\ op.name = "clock_cycle"
    /\ op.instruction = \hD455
    /\ op.pc = 526
    /\ m_i = 0 /\ m_v[4] = 62 /\ m_v[5] = 30
    /\ get_pixel(op.screen, 62, 30)
    /\ ~get_pixel(m_memory, 62, 30)
    /\ get_pixel(m_memory, 0, 0)
    /\ get_pixel(m_memory, 3, 4)

\* C13 as it is stated: the second of two executions in a row of a DXYN
\* leaves VF = 1, whatever the sprite and the framebuffer are.
C13_SecondDrawCollides ==
    [][SameDrawAgain => m_v'[15] = 1]_vars

\* C13, amended: for X and Y other than F and a sprite outside the
\* framebuffer, the second of two executions in a row of a DXYN leaves VF = 1
\* if a set bit of the sprite falls on a pixel that was off before the first
\* execution, and VF = 0 if there is no such bit.
C13_SecondDrawCollidesOnFreshPixels ==
    [][(SameDrawAgain /\ WordX # 15 /\ WordY # 15 /\ m_i + WordN <= 3840) =>
          m_v'[15] =
             IF \E x \in 0..63, y \in 0..31 :
                   SpriteCovers(x, y) /\ ~get_pixel(op.screen, x, y)
             THEN 1 ELSE 0]_vars

\* The digit 1 drawn twice at (62, 30): the second draw leaves VF = 1.
C13_Witness ==
    /\ op.name = "clock_cycle"
    /\ op.instruction = \hD455
    /\ op.pc = 526
    /\ m_i = 5 /\ m_v[4] = 62 /\ m_v[5] = 30
    /\ get_pixel(op.screen, 0, 30)
    /\ ~get_pixel(m_memory, 0, 30)
    /\ m_v[15] = 1

-----------------------------------------------------------------------------
(* Properties of SpecRate500                                               *)

\* C6: from m_time_counter = 0 and delay timer 255, 60 consecutive clock_cycle
\* calls with delta_time = 1/500 s, none of them FX15, leave the delay timer
\* at 248.
C6_SixtyCallsSevenTicks == run500 = 60 => m_delay_timer = 248

C6_Witness == run500 = 60 /\ m_delay_timer = 248 /\ ticks = 7

-----------------------------------------------------------------------------
(* Properties of SpecTimer                                                 *)

\* C7: the ticks applied since the last reset are the full periods of 1/60 s
\* contained in the time elapsed since then.
C7_TicksAreFullPeriods == ticks = elapsed.periods

\* C9: the ticks applied depend on the elapsed time alone: a run in which as
\* much time has elapsed as in the run before it has applied as many ticks,
\* however the time of either was split into calls.
C9_TicksDependOnElapsedOnly ==
    elapsed = previous.elapsed => ticks = previous.ticks

-----------------------------------------------------------------------------
(* Properties of SpecAlu                                                   *)

\* The registers the instruction at m_pc names, before it executes.
VX == m_v[WordX]
VY == m_v[WordY]

\* The step is a clock_cycle call that executes 8XYn with X other than F.
AluStep(n) == Cycle /\ WordFamily = 8 /\ WordN = n /\ WordX # 15

\* C14 as it is stated: for X other than F, 8XY4 leaves (VX + VY) mod 256 in
\* VX, VF = 1 when the sum fits in 8 bits and VF = 0 when it does not.
C14_AddSetsFlagWithoutOverflow ==
    [][AluStep(4) =>
          /\ m_v'[WordX] = (VX + VY) % 256
          /\ m_v'[15] = IF VX + VY <= 255 THEN 1 ELSE 0]_vars

\* C14, amended: for X other than F, 8XY4 leaves (VX + VY) mod 256 in VX,
\* VF = 0 when the sum fits in 8 bits, which is when the result is at least
\* the original VX, and VF = 1 when it does not.
C14_AddSetsFlagOnOverflow ==
    [][AluStep(4) =>
          /\ m_v'[WordX] = (VX + VY) % 256
          /\ (VX + VY <= 255) <=> (m_v'[WordX] >= VX)
          /\ m_v'[15] = IF VX + VY <= 255 THEN 0 ELSE 1]_vars

\* 8124 with V1 = V2 = 128: V1 wraps to 0 and VF, which was 7, is 1.
C14_Witness ==
    /\ op.name = "clock_cycle"
    /\ op.instruction = \h8124
    /\ op.pc = 518
    /\ mem_get(m_memory, 515) = 128
    /\ m_v[2] = 128
    /\ m_v[1] = 0
    /\ m_v[15] = 1

\* C15: for X and Y other than F and VX + VY <= 255, 8XY4 leaves VX + VY in
\* VX and 0 in VF; VX = 1 and VY = 2 give VX = 3 and VF = 0.
C15_SmallSumClearsFlag ==
    [][(AluStep(4) /\ WordY # 15 /\ VX + VY <= 255) =>
          /\ m_v'[WordX] = VX + VY
          /\ m_v'[15] = 0]_vars

\* 8124 with V1 = 1 and V2 = 2: V1 is 3 and VF, which was 7, is 0.
C15_Witness ==
    /\ op.name = "clock_cycle"
    /\ op.instruction = \h8124
    /\ op.pc = 518
    /\ mem_get(m_memory, 515) = 1
    /\ m_v[2] = 2
    /\ m_v[1] = 3
    /\ m_v[15] = 0

\* C16: for X other than F, 8XY5 leaves (VX - VY) mod 256 in VX, VF = 0 when
\* VY is greater than the original VX and VF = 1 otherwise (VY = VX and
\* VY = 0 included).
C16_SubClearsFlagOnBorrow ==
    [][AluStep(5) =>
          /\ m_v'[WordX] = (VX + 256 - VY) % 256
          /\ m_v'[15] = IF VY > VX THEN 0 ELSE 1]_vars

\* 8125 with V1 = 1 and V2 = 2: V1 is 255 and VF, which was 7, is 0.
C16_Witness ==
    /\ op.name = "clock_cycle"
    /\ op.instruction = \h8125
    /\ op.pc = 518
    /\ mem_get(m_memory, 515) = 1
    /\ m_v[2] = 2
    /\ m_v[1] = 255
    /\ m_v[15] = 0

\* C17: for X other than F, 8XY7 leaves (VY - VX) mod 256 in VX, VF = 0 when
\* the original VX is greater than VY and VF = 1 otherwise.
C17_SubnClearsFlagOnBorrow ==
    [][AluStep(7) =>
          /\ m_v'[WordX] = (VY + 256 - VX) % 256
          /\ m_v'[15] = IF VX > VY THEN 0 ELSE 1]_vars

\* C18 as it is stated: for X other than F, 8XY6 leaves bit 0 of VX in VF
\* and VX >> 1 in VX, 8XYE leaves bit 7 of VX in VF and (VX << 1) mod 256 in
\* VX, and VY is after either what it was before.
C18_ShiftsKeepVY ==
    [][/\ AluStep(6) =>
            /\ m_v'[15] = VX % 2
            /\ m_v'[WordX] = VX \div 2
            /\ m_v'[WordY] = VY
       /\ AluStep(14) =>
            /\ m_v'[15] = VX \div 128
            /\ m_v'[WordX] = (2 * VX) % 256
            /\ m_v'[WordY] = VY]_vars

\* C18, amended: for X other than F, 8XY6 leaves bit 0 of VX in VF and
\* VX >> 1 in VX, 8XYE leaves bit 7 of VX in VF and (VX << 1) mod 256 in VX;
\* every other register, VY among them when Y is neither X nor F, keeps its
\* value, whatever VY is.
C18_ShiftsChangeOnlyVXAndVF ==
    [][/\ AluStep(6) =>
            m_v' = [m_v EXCEPT ![WordX] = VX \div 2, ![15] = VX % 2]
       /\ AluStep(14) =>
            m_v' = [m_v EXCEPT ![WordX] = (2 * VX) % 256, ![15] = VX \div 128]]_vars

\* 8126 with V1 = 5 and V2 = 255: V1 is 2, VF is 1 and V2 is still 255.
C18_Witness ==
    /\ op.name = "clock_cycle"
    /\ op.instruction = \h8126
    /\ op.pc = 518
    /\ mem_get(m_memory, 515) = 5
    /\ m_v[2] = 255
    /\ m_v[1] = 2
    /\ m_v[15] = 1

\* C19: 7XNN leaves (VX + NN) mod 256 in VX and every other register of
\* V0..VF, VF among them when X is not F, as well as I and SP as they were,
\* whether the sum wraps or not.
C19_AddImmediateKeepsFlag ==
    [][(Cycle /\ WordFamily = 7) =>
          /\ m_v' = [m_v EXCEPT ![WordX] = (VX + WordNN) % 256]
          /\ UNCHANGED << m_i, m_sp >>]_vars

\* 7102 with V1 = 0xFF: V1 is 1 and VF is still 7.
C19_Witness ==
    /\ op.name = "clock_cycle"
    /\ op.instruction = \h7102
    /\ op.pc = 518
    /\ mem_get(m_memory, 515) = 255
    /\ m_v[1] = 1
    /\ m_v[15] = 7

-----------------------------------------------------------------------------
(* Properties of SpecSkip                                                  *)

\* The condition under which the skip at m_pc skips.
SkipCondition ==
    CASE WordFamily = 3 -> VX = WordNN
      [] WordFamily = 4 -> VX # WordNN
      [] WordFamily = 5 -> VX = VY
      [] WordFamily = 9 -> VX # VY
      [] WordFamily = 14 /\ WordNN = \h9E -> m_keyboard[VX]
      [] WordFamily = 14 /\ WordNN = \hA1 -> ~m_keyboard[VX]

\* The step is a clock_cycle call that executes a conditional skip, one on a
\* key only with VX <= 15.
SkipStep == Cycle /\ SkipOpcode /\ (WordFamily = 14 => VX <= 15)

\* C20 as it is stated: a clock_cycle at a conditional skip at address A
\* leaves PC = A + 4 when the condition holds and A + 2 when it does not, and
\* V0..VF, I, SP, memory and both timers as they were.
C20_SkipChangesOnlyPC ==
    [][SkipStep =>
          /\ m_pc' = IF SkipCondition THEN m_pc + 4 ELSE m_pc + 2
          /\ UNCHANGED << m_v, m_i, m_sp, m_memory, m_delay_timer, m_sound_timer >>]_vars

\* C20, amended: a clock_cycle at a conditional skip at address A leaves
\* PC = A + 4 when the condition holds and A + 2 when it does not, and
\* V0..VF, I, SP and memory as they were; each timer is lower by the ticks
\* the call applies, but not below 0, and as it was when the call applies
\* none.
C20_SkipChangesOnlyPCAndTicks ==
    [][SkipStep =>
          /\ m_pc' = IF SkipCondition THEN m_pc + 4 ELSE m_pc + 2
          /\ UNCHANGED << m_v, m_i, m_sp, m_memory >>
          /\ m_delay_timer' = Max(m_delay_timer - (ticks' - ticks), 0)
          /\ m_sound_timer' = Max(m_sound_timer - (ticks' - ticks), 0)
          /\ ticks' = ticks => UNCHANGED << m_delay_timer, m_sound_timer >>]_vars

\* E19E at 0x208 with V1 = 3 while key 3 is down, in a call that applies two
\* ticks: PC is 0x20C and the delay timer, set to 3 by the call before, is 1.
C20_Witness ==
    /\ op.name = "clock_cycle"
    /\ op.instruction = \hE19E
    /\ op.pc = 520
    /\ m_v[1] = 3
    /\ m_keyboard[3]
    /\ m_pc = 524
    /\ ticks = 2
    /\ m_delay_timer = 1

-----------------------------------------------------------------------------
(* Properties of SpecCall                                                  *)

WordNNN == Word % 4096

\* The 16-bit value in the stack slot at sp, low byte first.
StackSlot(memory, sp) ==
    mem_get(memory, s_stack_address + sp) + 256 * mem_get(memory, s_stack_address + sp + 1)

\* C21: 2NNN at address A adds 2 to SP, stores A + 2 low byte first in the
\* slot at the new SP and sets PC = NNN; 00EE sets PC to the value in the
\* slot at SP and takes 2 from SP; and a 00EE that ends a call nested at most
\* 47 deep returns to the address after the 2NNN that made the call, with SP
\* as that 2NNN found it.
C21_CallsReturnLastInFirstOut ==
    [][/\ (Cycle /\ WordFamily = 2) =>
            /\ m_sp' = (m_sp + 2) % 256
            /\ StackSlot(m_memory', m_sp') = m_pc + 2
            /\ m_pc' = WordNNN
       /\ (Cycle /\ Word = \h00EE) =>
            /\ m_pc' = StackSlot(m_memory, m_sp)
            /\ m_sp' = (m_sp + 254) % 256
            /\ (calls # << >> /\ Len(calls) <= 47) =>
                  /\ m_pc' = calls[Len(calls)].pc + 2
                  /\ m_sp' = calls[Len(calls)].sp]_vars

\* The return of the outermost of 47 nested calls: the slot of the 47th
\* call at 0xEFE has been used, PC is 0x202 and SP is 0 again.
C21_Witness ==
    /\ op.name = "clock_cycle"
    /\ op.instruction = \h00EE
    /\ op.pc = 518
    /\ calls = << >>
    /\ StackSlot(m_memory, 94) = 512 + 4 * 46 + 2
    /\ StackSlot(m_memory, 96) = 0
    /\ m_pc = 514
    /\ m_sp = 0

\* The stack region 0xEA0..0xEFF.
InStack(a) == a >= s_stack_address /\ a < s_display_address

\* C30: the two bytes a 2NNN writes and the two bytes a 00EE reads lie in
\* 0xEA0..0xEFF, and a 2NNN changes no byte of memory outside that region.
C30_StackStaysInItsRegion ==
    [][/\ (Cycle /\ WordFamily = 2) =>
            /\ InStack(s_stack_address + m_sp')
            /\ InStack(s_stack_address + m_sp' + 1)
            /\ \A a \in 0..(s_total_memory - 1) :
                  ~InStack(a) => mem_get(m_memory', a) = mem_get(m_memory, a)
       /\ (Cycle /\ Word = \h00EE) =>
            /\ InStack(s_stack_address + m_sp)
            /\ InStack(s_stack_address + m_sp + 1)]_vars

-----------------------------------------------------------------------------
(* Properties of SpecBcd                                                   *)

\* The bytes of memory at the addresses that are not in the set, as the map
\* of the nonzero ones.
MemoryOutside(memory, addresses) ==
    [a \in DOMAIN memory \ addresses |-> memory[a]]

\* C22: FX33 leaves VX div 100 in memory[I], (VX div 10) mod 10 in
\* memory[I+1] and VX mod 10 in memory[I+2]: three digits in 0..9 whose
\* value is VX; I, V0..VF and every other byte of memory keep their values.
C22_BcdDigits ==
    [][(Cycle /\ WordFamily = 15 /\ WordNN = \h33) =>
          /\ mem_get(m_memory', m_i) = VX \div 100
          /\ mem_get(m_memory', m_i + 1) = (VX \div 10) % 10
          /\ mem_get(m_memory', m_i + 2) = VX % 10
          /\ \A k \in 0..2 : mem_get(m_memory', m_i + k) \in 0..9
          /\ 100 * mem_get(m_memory', m_i) + 10 * mem_get(m_memory', m_i + 1)
                + mem_get(m_memory', m_i + 2) = VX
          /\ MemoryOutside(m_memory', m_i..(m_i + 2)) = MemoryOutside(m_memory, m_i..(m_i + 2))
          /\ UNCHANGED << m_i, m_v >>]_vars

\* F133 with V1 = 255 and I = 0xFFD: the last three bytes of memory are
\* 2, 5, 5.
C22_Witness ==
    /\ op.name = "clock_cycle"
    /\ op.instruction = \hF133
    /\ m_v[1] = 255
    /\ m_i = 4093
    /\ mem_get(m_memory, 4093) = 2
    /\ mem_get(m_memory, 4094) = 5
    /\ mem_get(m_memory, 4095) = 5

-----------------------------------------------------------------------------
(* Properties of SpecCopy                                                  *)

\* C23: FX55 leaves V0..VX in memory[I..I+X] and every other byte of memory,
\* V0..VF and I as they were; FX65 leaves memory[I..I+X] in V0..VX and the
\* registers above X, memory and I as they were; an FX65 that follows an
\* FX55 with the same X, I not changed in between, leaves V0..VF as they
\* were.
C23_BulkCopy ==
    [][/\ (Cycle /\ WordFamily = 15 /\ WordNN = \h55) =>
            /\ \A k \in 0..WordX : mem_get(m_memory', m_i + k) = m_v[k]
            /\ MemoryOutside(m_memory', m_i..(m_i + WordX))
                  = MemoryOutside(m_memory, m_i..(m_i + WordX))
            /\ UNCHANGED << m_v, m_i >>
       /\ (Cycle /\ WordFamily = 15 /\ WordNN = \h65) =>
            /\ \A k \in 0..15 :
                  m_v'[k] = IF k <= WordX THEN mem_get(m_memory, m_i + k) ELSE m_v[k]
            /\ UNCHANGED << m_memory, m_i >>
            /\ (op.name = "clock_cycle" /\ op.instruction = Word - 16) => m_v' = m_v]_vars

\* F255 and F265 with I = 0x300: memory holds V0..V2 and V0..V2, VF are what
\* they were.
C23_Witness ==
    /\ op.name = "clock_cycle"
    /\ op.instruction = \hF265
    /\ op.pc = 524
    /\ m_i = 768
    /\ \A k \in 0..2 : mem_get(m_memory, 768 + k) = 17 * (k + 1)
    /\ mem_get(m_memory, 771) = 0
    /\ \A k \in 0..2 : m_v[k] = 17 * (k + 1)
    /\ m_v[15] = 68

-----------------------------------------------------------------------------
(* Properties of SpecFont                                                  *)

\* memory[0x000..0x04F] is the table of the 16 glyphs.
FontInstalled(memory) ==
    \A a \in 0..(Len(s_characters) - 1) : mem_get(memory, a) = s_characters[a + 1]

\* C24: after the constructor and after every load that is accepted,
\* memory[0x000..0x04F] is the table of the 16 glyphs of 5 bytes; reset, run
\* in whatever state the interpreter is in, installs the table, and a second
\* reset changes nothing of what the first has left.
C24_ResetReinstallsFont ==
    /\ Len(s_characters) = 16 * 5
    /\ (op.name = "impl" \/ (op.name = "load" /\ load_accepts(op.rom_data.length))) =>
          FontInstalled(m_memory)
    /\ FontInstalled(reset(Machine).memory)
    /\ reset(reset(Machine)) = reset(Machine)

\* A load over a program that had changed the glyph of 0.
C24_Witness ==
    /\ op.name = "load"
    /\ load_accepts(op.rom_data.length)
    /\ op.before.font = [a \in 0..4 |-> << 170, 34, 51, 144, 240 >>[a + 1]]
    /\ \A a \in 0..4 : mem_get(m_memory, a) = s_characters[a + 1]
    /\ mem_get(m_memory, 0) = 240

-----------------------------------------------------------------------------
(* Properties of Spec: the keys                                            *)

\* C25: the flag of each key is the argument of the last set_key_state for
\* that key since the last reset, FALSE when there was none;
\* set_key_state(k, v) changes the flag of k only and clock_cycle changes no
\* flag; EX9E, EXA1 and FX0A act on the flags as they are when they execute,
\* whatever calls were made for the key before the last one.
C25_KeysFollowTheLastCall ==
    [][/\ m_keyboard = keys.last
       /\ m_keyboard' = keys'.last
       /\ op'.name = "set_key_state" =>
             m_keyboard' = [m_keyboard EXCEPT ![op'.key] = op'.pressed]
       /\ op'.name = "clock_cycle" => m_keyboard' = m_keyboard
       /\ (Cycle /\ WordFamily = 14 /\ WordNN = \h9E /\ VX <= 15) =>
             m_pc' = IF keys.last[VX] THEN m_pc + 4 ELSE m_pc + 2
       /\ (Cycle /\ WordFamily = 14 /\ WordNN = \hA1 /\ VX <= 15) =>
             m_pc' = IF keys.last[VX] THEN m_pc + 2 ELSE m_pc + 4
       /\ (Cycle /\ WordFamily = 15 /\ WordNN = \h0A) =>
             m_pc' = IF \E k \in 0..15 : keys.last[k] THEN m_pc + 2 ELSE m_pc]_vars

\* E19E with V1 = 3 after key 3 went down and up again since the call
\* before: PC moves on by 2.
C25_Witness ==
    /\ op.name = "clock_cycle"
    /\ op.instruction = \hE19E
    /\ m_v[1] = 3
    /\ 3 \in op.pressed
    /\ ~m_keyboard[3]
    /\ m_pc = op.pc + 2

-----------------------------------------------------------------------------
(* Properties of SpecPixel                                                 *)

\* Bit n of a byte, bit 0 the least significant.
Bit(byte, n) == (byte \div 2 ^ n) % 2

Pixels == (0..(s_screen_width - 1)) \X (0..(s_screen_height - 1))

\* C26: get_pixel(x, y) is bit 7 - x mod 8 of memory[0xF00 + (64 y + x) div 8];
\* after set_pixel(x, y, v) get_pixel(x, y) is v, every other pixel and every
\* byte of memory outside 0xF00..0xFFF is as it was, and the same call made
\* again changes nothing.
C26_PixelAccessors ==
    [][/\ \A p \in Pixels :
             get_pixel(m_memory', p[1], p[2]) =
                (Bit(mem_get(m_memory', 3840 + (64 * p[2] + p[1]) \div 8), 7 - (p[1] % 8)) = 1)
       /\ op'.name = "set_pixel" =>
             /\ get_pixel(m_memory', op'.x, op'.y) = op'.value
             /\ \A p \in Pixels \ { << op'.x, op'.y >> } :
                   get_pixel(m_memory', p[1], p[2]) = get_pixel(m_memory, p[1], p[2])
             /\ MemoryOutside(m_memory', 3840..4095) = MemoryOutside(m_memory, 3840..4095)
             /\ set_pixel(m_memory', op'.x, op'.y, op'.value) = m_memory'
             /\ (op.name = "set_pixel" /\ op.value = op'.value) => m_memory' = m_memory]_vars

\* set_pixel(63, 31, true) made twice on the blank screen: bit 0 of the
\* last byte of memory is set and the second call has found the pixel on.
C26_Witness ==
    /\ op.name = "set_pixel"
    /\ op.x = 63 /\ op.y = 31 /\ op.value
    /\ op.run = 2 /\ op.was
    /\ get_pixel(m_memory, 63, 31)
    /\ video_memory(m_memory) = (4095 :> 1)

-----------------------------------------------------------------------------
(* Properties of SpecCls                                                   *)

\* C27: 00E0 leaves every pixel off, memory below 0xF00, V0..VF, I and SP as
\* they were and PC 2 further; it changes no timer: each timer is what the
\* ticks of the call have left of it, and what it was when there are none.
C27_ClsClearsOnlyTheScreen ==
    [][(Cycle /\ Word = \h00E0) =>
          /\ \A p \in Pixels : ~get_pixel(m_memory', p[1], p[2])
          /\ MemoryOutside(m_memory', 3840..4095) = MemoryOutside(m_memory, 3840..4095)
          /\ UNCHANGED << m_v, m_i, m_sp >>
          /\ m_pc' = m_pc + 2
          /\ m_delay_timer' = Max(m_delay_timer - (ticks' - ticks), 0)
          /\ m_sound_timer' = Max(m_sound_timer - (ticks' - ticks), 0)
          /\ ticks' = ticks => UNCHANGED << m_delay_timer, m_sound_timer >>]_vars

\* 00E0 inside the subroutine, after the draw, in a run without a tick: the
\* screen is blank, the return address is on the stack, VF, I, SP and the
\* timers are as they were.
C27_Witness ==
    /\ op.name = "clock_cycle"
    /\ op.instruction = \h00E0
    /\ op.pc = 528
    /\ video_memory(m_memory) = << >>
    /\ StackSlot(m_memory, 2) = 522
    /\ m_sp = 2
    /\ m_i = 5
    /\ m_v[15] = 7
    /\ ticks = 0
    /\ m_delay_timer = 3
    /\ m_sound_timer = 3

-----------------------------------------------------------------------------
(* Properties of SpecBounds                                                *)

\* C28: no clock_cycle call reads or writes m_memory outside 0x000..0xFFF:
\* an access outside an array, if there is one, is that of EX9E or EXA1
\* to m_keyboard.
C28_AccessesStayInMemory ==
    ub => /\ op.name = "clock_cycle"
          /\ op.instruction \div 4096 = 14

-----------------------------------------------------------------------------
(* Properties of SpecRandom                                                *)

\* The state a clock_cycle call leaves is clock_cycle(Machine, delta_time,
\* rand): the memory, the registers, I, PC, SP, the timers, the time counter
\* and the keys that follow from the state before the call, the call's
\* delta_time and the value rand() returns in it.

C31_KeyLookupStaysInTheArray ==
    ~(/\ ub
      /\ op.name = "clock_cycle"
      /\ op.instruction # -1
      /\ decode(op.instruction).n3 = 14
      /\ decode(op.instruction).lb \in { 158, 161 })

-----------------------------------------------------------------------------
(* Properties of the flag register                                         *)

\* The instruction of the last clock_cycle call is one that sets the flag:
\* 8XY4, 8XY5, 8XY6, 8XY7, 8XYE or DXYN.
FlagOpcode ==
    /\ op.name = "clock_cycle"
    /\ op.instruction # -1
    /\ LET d == decode(op.instruction)
       IN  \/ d.n3 = 8 /\ d.n0 \in { 4, 5, 6, 7, 14 }
           \/ d.n3 = 13

\* C32: an instruction that sets the flag leaves 0 or 1 in VF, for every X
\* and Y, VF included.
C32_FlagIsZeroOrOne == FlagOpcode /\ ~ub => m_v[15] \in { 0, 1 }

-----------------------------------------------------------------------------
(* Properties of the framebuffer as a part of memory                       *)

\* C33: a pixel changes only in a load, a set_pixel, or a clock_cycle call
\* that executes 00E0 or DXYN.
C33_PixelsChangeOnlyByDrawing ==
    [][video_memory(m_memory') # video_memory(m_memory) =>
          \/ op'.name \in { "load", "set_pixel" }
          \/ /\ op'.name = "clock_cycle"
             /\ Word = \h00E0 \/ WordFamily = 13]_vars

-----------------------------------------------------------------------------
(* Properties of SpecTransfer                                              *)

\* The value of a timer that held t after the ticks of the step.
AfterTicks(t) == Max(t - (ticks' - ticks), 0)

\* C34: in a clock_cycle call the ticks that are due come before the
\* instruction: FX07 leaves in VX the delay timer as the ticks of the call
\* left it, FX15 leaves VX in the delay timer and FX18 leaves VX in the sound
\* timer, whatever number of ticks the call has applied, and the timer the
\* instruction does not write is what the ticks left.
C34_TicksBeforeTheInstruction ==
    [][Cycle /\ WordFamily = 15 =>
          /\ WordNN = \h07 =>
                /\ m_v'[WordX] = AfterTicks(m_delay_timer)
                /\ m_delay_timer' = AfterTicks(m_delay_timer)
                /\ m_sound_timer' = AfterTicks(m_sound_timer)
          /\ WordNN = \h15 =>
                /\ m_delay_timer' = VX
                /\ m_sound_timer' = AfterTicks(m_sound_timer)
          /\ WordNN = \h18 =>
                /\ m_sound_timer' = VX
                /\ m_delay_timer' = AfterTicks(m_delay_timer)]_vars

\* The LD DT, VA at 0x208 has left 3 in the delay timer in a call that
\* applied two ticks: the LD VB, DT before it read 3, and the sound timer,
\* set to 3 before that, is 1.
C34_Witness ==
    /\ op.name = "clock_cycle"
    /\ op.pc = \h208
    /\ op.instruction = \hFA15
    /\ m_v[11] = 3
    /\ m_delay_timer = 3
    /\ m_sound_timer = 1
    /\ ticks = 2

-----------------------------------------------------------------------------
(* Properties of SpecMainLoop                                              *)

\* C35: after every frame, time_acc is at least 0 and less than clock_period,
\* the number of clock_cycle calls made is the number of whole clock periods
\* in the sum of the frame times, and the time the interpreter has been given
\* is that number of calls times clock_period.
C35_OneCallForEachWholePeriod ==
    main_loop.at = "frame" =>
        /\ 0 <= time_acc
        /\ time_acc < clock_period
        /\ main_loop.calls = main_loop.elapsed.periods
        /\ elapsed.periods * s_time_period + elapsed.rest = main_loop.calls * clock_period

\* C36: the audio callback is never inside get_sound_timer while the main
\* thread is inside clock_cycle.
C36_NoTwoMethodsAtTheSameTime ==
    ~(main_loop.at = "clock_cycle" /\ data_callback.at = "get_sound_timer")

-----------------------------------------------------------------------------
(* Properties of SpecSplash                                                *)

\* C37: as long as no load has been accepted, the framebuffer is the splash
\* image, the word at 0x200 is 0x0000, PC is 0x200, V0..VF, I, SP and the
\* two timers are 0, and a clock_cycle call changes nothing but
\* m_time_counter.
C37_StallBeforeTheFirstLoad ==
    /\ ~ub
    /\ \A p \in Pixels :
          get_pixel(m_memory, p[1], p[2]) = s_splash_screen_data(p[2] * s_screen_width + p[1])
    /\ mem_get(m_memory, s_program_start_address) = 0
    /\ mem_get(m_memory, s_program_start_address + 1) = 0
    /\ m_memory = impl.memory
    /\ m_pc = s_program_start_address
    /\ \A r \in 0..(s_num_registers - 1) : m_v[r] = 0
    /\ m_i = 0
    /\ m_sp = 0
    /\ m_delay_timer = 0
    /\ m_sound_timer = 0

\* clock_cycle has been called with key 0 down, two ticks have been applied
\* and time is left on the counter; the X at (12, 11) of the splash is lit.
C37_Witness ==
    /\ op.name = "clock_cycle"
    /\ op.instruction = 0
    /\ m_keyboard[0]
    /\ ticks = 2
    /\ m_time_counter > 0
    /\ m_pc = s_program_start_address
    /\ get_pixel(m_memory, 12, 11)

-----------------------------------------------------------------------------
(* Properties of SpecStall                                                 *)

\* PC is held: the word at PC is a wait for a key and no key is down, or it
\* is the unknown opcode 0x0000.
Stalled ==
    \/ WordFamily = 15 /\ WordNN = \h0A /\ m_keyboard = NoKey
    \/ Word = 0

-----------------------------------------------------------------------------
(* Properties of SpecFont: the font while the program runs                 *)

\* C39: no clock_cycle call changes memory[0x000..0x04F], so that the
\* address FX29 leaves in I, 5 * VX, is that of the five bytes of the glyph
\* of VX as reset installed them.
C39_FontStaysIntact ==
    [][Cycle =>
          /\ FontInstalled(m_memory')
          /\ (WordFamily = 15 /\ WordNN = \h29 /\ VX <= 15) =>
                /\ m_i' = 5 * VX
                /\ \A k \in 0..4 :
                      mem_get(m_memory', m_i' + k) = s_characters[5 * VX + k + 1]]_vars

-----------------------------------------------------------------------------
(* Properties of Spec: the two copies of the interpreter                   *)

\* src/Chip8/Chip8.cpp and src/src/chip8.cpp are the same text, line for
\* line, but for the names (Memory for m_memory, ProgramStartAddress for
\* s_program_start_address, ClockCycle for clock_cycle, ...) and for the
\* body of the accessor of the register count.  The fields of Chip8::Impl
\* are therefore those of chip8::impl, and the methods that change them the
\* same functions of them; what each copy shows of the fields follows.

\* What the accessors of c8::chip8 return in the state s.
chip8(s) ==
    [ get_pixel |-> [p \in Pixels |-> get_pixel(s.memory, p[1], p[2])],
      get_register |-> [i \in 0..(s_num_registers - 1) |-> s.v[i]],
      get_register_count |-> s_num_registers,
      get_sound_timer |-> s.sound_timer,
      get_screen_width |-> s_screen_width,
      get_screen_height |-> s_screen_height ]

\* What the accessors of c8::Chip8 return in the state s; GetRegisterCount
\* returns uint8_t(), the value-initialised byte.
Chip8(s) ==
    [ get_pixel |-> [p \in Pixels |-> get_pixel(s.memory, p[1], p[2])],
      get_register |-> [i \in 0..(s_num_registers - 1) |-> s.v[i]],
      get_register_count |-> 0,
      get_sound_timer |-> s.sound_timer,
      get_screen_width |-> s_screen_width,
      get_screen_height |-> s_screen_height ]

\* C40: after the same calls of load, clock_cycle, set_key_state and
\* set_pixel, with the same random bytes, every accessor of c8::Chip8
\* returns what the same accessor of c8::chip8 returns.
C40_TheTwoCopiesAgree == Chip8(Machine) = chip8(Machine)

====
